---- MODULE Spec2Model ----
(***************************************************************************)
(* Model of the workflow ExecutionEngine (src/store/executionEngine.ts,    *)
(* found in src/unnamed/part_003 from line 396 on) and of the controls the *)
(* ExecutionPanel exposes.                                                 *)
(*                                                                         *)
(* Text (conditions, note contents, variable names) is a sequence of       *)
(* one-character strings, so that the engine's regex substitution,         *)
(* sanitising, splitting and parsing are computed rather than assumed.     *)
(***************************************************************************)
EXTENDS Integers, Sequences, FiniteSets, Bags, TLC

(***************************************************************************)
(* Bounds of the model.                                                    *)
(***************************************************************************)
\* executeWorkflow calls in one behaviour
MaxCalls == 2
\* node visits of one context before the model stops following a cycle
MaxPath == 3
\* calls of pause, resume, stop, reset and setVariable in one behaviour
MaxControls == 2

(***************************************************************************)
(* Text helpers.                                                           *)
(***************************************************************************)
Digits == <<"0", "1", "2", "3", "4", "5", "6", "7", "8", "9">>

IsDigit(c) == \E i \in 1..10 : Digits[i] = c

DigitVal(c) == (CHOOSE i \in 1..10 : Digits[i] = c) - 1

Letters ==
  {"a", "b", "c", "d", "e", "f", "g", "h", "i", "j", "k", "l", "m", "n", "o",
   "p", "q", "r", "s", "t", "u", "v", "w", "x", "y", "z", "T", "F"}

\* \w of the regular expressions
IsWordChar(c) == c \in Letters \/ IsDigit(c) \/ c = "_"

\* \s of the regular expressions
IsSpace(c) == c = " "

RECURSIVE SkipSpaces(_)
SkipSpaces(s) ==
  IF s # <<>> /\ IsSpace(Head(s)) THEN SkipSpaces(Tail(s)) ELSE s

RECURSIVE DropTrailingSpaces(_)
DropTrailingSpaces(s) ==
  IF s # <<>> /\ IsSpace(s[Len(s)])
  THEN DropTrailingSpaces(SubSeq(s, 1, Len(s) - 1))
  ELSE s

\* String.prototype.trim
Trim(s) == DropTrailingSpaces(SkipSpaces(s))

\* position of the first occurrence of p in s, 0 when there is none
IndexOf(s, p) ==
  LET hits == {i \in 1..(Len(s) - Len(p) + 1) : SubSeq(s, i, i + Len(p) - 1) = p}
  IN IF hits = {} THEN 0 ELSE CHOOSE i \in hits : \A j \in hits : i <= j

\* String.prototype.includes
Includes(s, p) == IndexOf(s, p) # 0

\* String.prototype.split(sep): the list of all pieces
RECURSIVE Split(_, _)
Split(s, sep) ==
  LET i == IndexOf(s, sep)
  IN IF i = 0 THEN <<s>>
     ELSE <<SubSeq(s, 1, i - 1)>> \o Split(SubSeq(s, i + Len(sep), Len(s)), sep)

\* String.prototype.toLowerCase on the letters of the model's alphabet
LowerChar(c) == IF c = "T" THEN "t" ELSE IF c = "F" THEN "f" ELSE c

ToLowerCase(s) == [i \in 1..Len(s) |-> LowerChar(s[i])]

RECURSIVE DigitsToNat(_, _)
DigitsToNat(s, acc) ==
  IF s = <<>> THEN acc ELSE DigitsToNat(Tail(s), 10 * acc + DigitVal(Head(s)))

RECURSIVE NatToDigits(_)
NatToDigits(n) ==
  IF n < 10 THEN <<Digits[n + 1]>>
  ELSE NatToDigits(n \div 10) \o <<Digits[(n % 10) + 1]>>

\* Number.prototype.toString for integers
IntToText(n) == IF n < 0 THEN <<"-">> \o NatToDigits(0 - n) ELSE NatToDigits(n)

\* the longest prefix of s made of digits
RECURSIVE DigitPrefix(_)
DigitPrefix(s) ==
  IF s # <<>> /\ IsDigit(Head(s)) THEN <<Head(s)>> \o DigitPrefix(Tail(s)) ELSE <<>>

AllDigits(s) == s # <<>> /\ \A i \in 1..Len(s) : IsDigit(s[i])

(***************************************************************************)
(* Values of the dynamically typed variable store.  kind is the runtime    *)
(* type of the JavaScript value; the fields a kind does not use are held   *)
(* at a fixed filler so that values compare by kind and payload.           *)
(***************************************************************************)
NumberValue(n) == [kind |-> "number", num |-> n, bool |-> FALSE, text |-> <<>>]

BooleanValue(b) == [kind |-> "boolean", num |-> 0, bool |-> b, text |-> <<>>]

StringValue(s) == [kind |-> "string", num |-> 0, bool |-> FALSE, text |-> s]

\* the value null (JSON.parse("null"))
NullValue == [kind |-> "null", num |-> 0, bool |-> FALSE, text |-> <<>>]

inferType(value) ==
  CASE value.kind = "string" -> "string"
    [] value.kind = "number" -> "number"
    [] value.kind = "boolean" -> "boolean"
    [] OTHER -> "object"

\* String(value), as a template literal renders it; never throws
TemplateText(value) ==
  CASE value.kind = "string" -> value.text
    [] value.kind = "number" -> IntToText(value.num)
    [] value.kind = "boolean" ->
         IF value.bool THEN <<"t", "r", "u", "e">> ELSE <<"f", "a", "l", "s", "e">>
    [] OTHER -> <<"n", "u", "l", "l">>

(***************************************************************************)
(* The variable store: Record<string, Variable>.  Object.entries lists the *)
(* keys in insertion order, so the store is the sequence of its entries in *)
(* that order; an overwrite keeps the entry's position.                    *)
(***************************************************************************)
HasVariable(variables, name) == \E i \in 1..Len(variables) : variables[i].name = name

VariableIndex(variables, name) == CHOOSE i \in 1..Len(variables) : variables[i].name = name

\* the write of setVariable: this.context.variables[name] = {name, value, type}
WriteVariable(variables, name, value, type) ==
  LET entry == [name |-> name, value |-> value, type |-> type]
  IN IF HasVariable(variables, name)
     THEN [variables EXCEPT ![VariableIndex(variables, name)] = entry]
     ELSE Append(variables, entry)

NotFound == [name |-> <<>>, value |-> NullValue, type |-> "undefined"]

\* the store is an object literal: a key it does not own is looked up in
\* Object.prototype.  Of that object's members the model's alphabet spells
\* "constructor"
ObjectPrototype == {<<"c", "o", "n", "s", "t", "r", "u", "c", "t", "o", "r">>}

\* what the lookup of an inherited key returns: a function, no Variable
Inherited == [name |-> <<>>, value |-> NullValue, type |-> "function"]

\* this.context.variables[name]
getVariable(variables, name) ==
  IF HasVariable(variables, name)
  THEN variables[VariableIndex(variables, name)]
  ELSE IF name \in ObjectPrototype THEN Inherited
  ELSE NotFound

(***************************************************************************)
(* parseValue: number, then boolean, then JSON, else quote-stripped text.  *)
(***************************************************************************)
Quotes == {"\"", "'"}

\* Number(value) is not NaN: the empty text (0) and decimal integers
IsNumeric(s) ==
  \/ s = <<>>
  \/ AllDigits(s)
  \/ Len(s) > 1 /\ s[1] \in {"-", "+"} /\ AllDigits(Tail(s))

NumberOf(s) ==
  IF s = <<>> THEN 0
  ELSE IF s[1] = "-" THEN 0 - DigitsToNat(Tail(s), 0)
  ELSE IF s[1] = "+" THEN DigitsToNat(Tail(s), 0)
  ELSE DigitsToNat(s, 0)

\* JSON.parse succeeds: null, or a double-quoted string without quote inside
IsJsonString(s) ==
  /\ Len(s) >= 2
  /\ s[1] = "\""
  /\ s[Len(s)] = "\""
  /\ \A i \in 2..(Len(s) - 1) : s[i] # "\""

IsJson(s) == s = <<"n", "u", "l", "l">> \/ IsJsonString(s)

JsonParse(s) ==
  IF s = <<"n", "u", "l", "l">> THEN NullValue
  ELSE StringValue(SubSeq(s, 2, Len(s) - 1))

\* value.replace(/^["']|["']$/g, '')
StripQuotes(s) ==
  LET a == IF s # <<>> /\ s[1] \in Quotes THEN Tail(s) ELSE s
  IN IF a # <<>> /\ a[Len(a)] \in Quotes THEN SubSeq(a, 1, Len(a) - 1) ELSE a

\* a variant that takes every right-hand side as text
parseValueAsText(s) == StringValue(StripQuotes(s))

parseValue(s) ==
  IF IsNumeric(s) THEN NumberValue(NumberOf(s))
  ELSE IF ToLowerCase(s) = <<"t", "r", "u", "e">> THEN BooleanValue(TRUE)
  ELSE IF ToLowerCase(s) = <<"f", "a", "l", "s", "e">> THEN BooleanValue(FALSE)
  ELSE IF IsJson(s) THEN JsonParse(s)
  ELSE StringValue(StripQuotes(s))

(***************************************************************************)
(* content.match(/(\w+)\s*=\s*(.+)/): the leftmost run of word characters  *)
(* that is followed by optional spaces, "=", and at least one character.   *)
(***************************************************************************)
RECURSIVE WordPrefix(_)
WordPrefix(s) ==
  IF s # <<>> /\ IsWordChar(Head(s)) THEN <<Head(s)>> \o WordPrefix(Tail(s)) ELSE <<>>

\* the match starting at position i, with the word taken greedily
MatchAt(content, i) ==
  LET rest == SubSeq(content, i, Len(content))
      word == WordPrefix(rest)
      after == SkipSpaces(SubSeq(rest, Len(word) + 1, Len(rest)))
  IN [ok |-> word # <<>> /\ Len(after) >= 2 /\ after[1] = "=",
      name |-> word,
      \* \s* gives back what (.+) needs; trim() removes it again
      value |-> IF after = <<>> THEN <<>> ELSE Tail(after)]

AssignmentMatch(content) ==
  LET hits == {i \in 1..Len(content) : MatchAt(content, i).ok}
  IN IF hits = {} THEN [ok |-> FALSE, name |-> <<>>, value |-> <<>>]
     ELSE MatchAt(content, CHOOSE i \in hits : \A j \in hits : i <= j)


(***************************************************************************)
(* evaluateCondition.                                                      *)
(***************************************************************************)
\* \bname\b matches at position i of s
WordAt(s, name, i) ==
  /\ i + Len(name) - 1 <= Len(s)
  /\ SubSeq(s, i, i + Len(name) - 1) = name
  /\ (i = 1 \/ ~IsWordChar(s[i - 1]))
  /\ (i + Len(name) > Len(s) \/ ~IsWordChar(s[i + Len(name)]))

\* evaluable.replace(new RegExp(`\\b${name}\\b`, 'g'), rep), from position i on
RECURSIVE ReplaceWordFrom(_, _, _, _)
ReplaceWordFrom(s, name, rep, i) ==
  IF i > Len(s) THEN <<>>
  ELSE IF WordAt(s, name, i)
  THEN rep \o ReplaceWordFrom(s, name, rep, i + Len(name))
  ELSE <<s[i]>> \o ReplaceWordFrom(s, name, rep, i + 1)

ReplaceWord(s, name, rep) == ReplaceWordFrom(s, name, rep, 1)

\* value.toString() throws a TypeError: the value is null and is not quoted
ToStringThrows(variable) == variable.type # "string" /\ variable.value.kind = "null"

\* the literal a variable is replaced by
LiteralOf(variable) ==
  IF variable.type = "string"
  THEN <<"\"">> \o TemplateText(variable.value) \o <<"\"">>
  ELSE TemplateText(variable.value)

\* the forEach over Object.entries(this.context.variables), entries i..Len
RECURSIVE Substitute(_, _, _)
Substitute(evaluable, variables, i) ==
  IF i > Len(variables) THEN evaluable
  ELSE Substitute(ReplaceWord(evaluable, variables[i].name, LiteralOf(variables[i])),
                  variables, i + 1)

\* the characters /[^0-9+\-*/<>=!&|()"\s]/g keeps
Allowed(c) ==
  \/ IsDigit(c)
  \/ IsSpace(c)
  \/ c \in {"+", "-", "*", "/", "<", ">", "=", "!", "&", "|", "(", ")", "\""}

Sanitize(s) == SelectSeq(s, Allowed)

NaN == [nan |-> TRUE, n |-> 0]

\* parseFloat on sanitized text: leading spaces, a sign, then digits
parseFloat(s) ==
  LET t == SkipSpaces(s)
      signed == t # <<>> /\ t[1] \in {"-", "+"}
      d == DigitPrefix(IF signed THEN Tail(t) ELSE t)
  IN IF d = <<>> THEN NaN
     ELSE [nan |-> FALSE,
           n |-> IF signed /\ t[1] = "-" THEN 0 - DigitsToNat(d, 0) ELSE DigitsToNat(d, 0)]

\* a variant in which a comparison with NaN holds
NumGreaterOrNaN(a, b) == a.nan \/ b.nan \/ a.n > b.n

\* a > b in JavaScript numbers: false when either is NaN
NumGreater(a, b) == ~a.nan /\ ~b.nan /\ a.n > b.n

\* const [left, right] = sanitizedExpression.split(op).map(s => s.trim())
LeftOf(s, op) == Trim(Split(s, op)[1])

RightOf(s, op) == Trim(Split(s, op)[2])

EvaluationError == "Error evaluating condition"

\* a variant whose catch block returns true
evaluateConditionErrorTrue(condition, variables) ==
  IF \E i \in 1..Len(variables) : ToStringThrows(variables[i])
  THEN [result |-> TRUE, errors |-> <<EvaluationError>>]
  ELSE
    LET e == Sanitize(Substitute(condition, variables, 1))
    IN [errors |-> <<>>,
        result |->
          IF Includes(e, <<">">>)
          THEN NumGreater(parseFloat(LeftOf(e, <<">">>)), parseFloat(RightOf(e, <<">">>)))
          ELSE IF Includes(e, <<"<">>)
          THEN NumGreater(parseFloat(RightOf(e, <<"<">>)), parseFloat(LeftOf(e, <<"<">>)))
          ELSE IF Includes(e, <<"=", "=">>)
          THEN LeftOf(e, <<"=", "=">>) = RightOf(e, <<"=", "=">>)
          ELSE IF Includes(e, <<"!", "=">>)
          THEN LeftOf(e, <<"!", "=">>) # RightOf(e, <<"!", "=">>)
          ELSE TRUE]

\* [result, errors]: the boolean returned and the errors addError appended
evaluateCondition(condition, variables) ==
  IF \E i \in 1..Len(variables) : ToStringThrows(variables[i])
  THEN [result |-> FALSE, errors |-> <<EvaluationError>>]
  ELSE
    LET e == Sanitize(Substitute(condition, variables, 1))
    IN [errors |-> <<>>,
        result |->
          IF Includes(e, <<">">>)
          THEN NumGreater(parseFloat(LeftOf(e, <<">">>)), parseFloat(RightOf(e, <<">">>)))
          ELSE IF Includes(e, <<"<">>)
          THEN NumGreater(parseFloat(RightOf(e, <<"<">>)), parseFloat(LeftOf(e, <<"<">>)))
          ELSE IF Includes(e, <<"=", "=">>)
          THEN LeftOf(e, <<"=", "=">>) = RightOf(e, <<"=", "=">>)
          ELSE IF Includes(e, <<"!", "=">>)
          THEN LeftOf(e, <<"!", "=">>) # RightOf(e, <<"!", "=">>)
          ELSE TRUE]


(***************************************************************************)
(* The workflow graph: reactflow nodes and edges as the engine reads them. *)
(* Every node carries a data object, as every node the editor renders      *)
(* does; data is untyped, so data.content need not be text: textContent =  *)
(* FALSE is a content that is a number (a truthy value without match()).   *)
(***************************************************************************)
Null == "null"

NodeOf(id, type, kind) ==
  [id |-> id, type |-> type, kind |-> kind, condition |-> <<>>, content |-> <<>>,
   textContent |-> TRUE]

ControlFlow(id, kind) == NodeOf(id, "control-flow", kind)

Decision(id, condition) == [ControlFlow(id, "decision") EXCEPT !.condition = condition]

StickyNote(id, content) == [NodeOf(id, "sticky-note", "") EXCEPT !.content = content]

Malformed(node) == [node EXCEPT !.textContent = FALSE]

EdgeOf(source, target, sourceHandle) ==
  [source |-> source, target |-> target, sourceHandle |-> sourceHandle]

Edge(source, target) == EdgeOf(source, target, Null)

\* Array.prototype.find, given the positions of the elements that satisfy
\* the test: the first of them, 0 when there is none
FirstOf(hits) == IF hits = {} THEN 0 ELSE CHOOSE i \in hits : \A j \in hits : i <= j

\* nodes.find(n => n.id === nodeId), as a position in nodes
NodeIndex(nodes, nodeId) == FirstOf({i \in 1..Len(nodes) : nodes[i].id = nodeId})

\* edges.filter(edge => edge.source === node.id)
OutgoingEdges(edges, id) == SelectSeq(edges, LAMBDA e : e.source = id)

\* nextEdge?.target || null, for an edge list and a position in it (0: none)
TargetAt(edges, i) == IF i >= 1 /\ i <= Len(edges) THEN edges[i].target ELSE Null

\* a variant that takes the last of the edges leaving the node
LastTarget(edges, id) ==
  LET from == {i \in 1..Len(edges) : edges[i].source = id}
  IN TargetAt(edges, IF from = {} THEN 0 ELSE CHOOSE i \in from : \A j \in from : j <= i)

\* edges.find(edge => edge.source === node.id)?.target || null
FirstTarget(edges, id) ==
  TargetAt(edges, FirstOf({i \in 1..Len(edges) : edges[i].source = id}))

\* a variant that ignores the tags of the edges
BranchTargetUntagged(outgoing, tag, fallback) == TargetAt(outgoing, fallback)

\* outgoingEdges.find(edge => edge.sourceHandle === tag) || outgoingEdges[fallback]
BranchTarget(outgoing, tag, fallback) ==
  LET i == FirstOf({j \in 1..Len(outgoing) : outgoing[j].sourceHandle = tag})
  IN IF i # 0 THEN outgoing[i].target ELSE TargetAt(outgoing, fallback)

(***************************************************************************)
(* executeNode and the per-type executors.  Each returns                   *)
(*   threw     an exception left the executor                              *)
(*   next      the id of the successor, or Null                            *)
(*   variables the variable store afterwards                               *)
(*   errors    the messages addError appended meanwhile                    *)
(*   step      the ExecutionStep as the executor left it                   *)
(*   wrote     the executor called setVariable                             *)
(***************************************************************************)
StepOf(nodeId, action, output) == [nodeId |-> nodeId, action |-> action, output |-> output]

Outcome(next, variables, errors, step) ==
  [threw |-> FALSE, next |-> next, variables |-> variables, errors |-> errors, step |-> step,
   wrote |-> FALSE]

\* an exception left the executor (content.match is not a function)
Thrown(variables, step) ==
  [threw |-> TRUE, next |-> Null, variables |-> variables, errors |-> <<>>, step |-> step,
   wrote |-> FALSE]

DefaultCondition == <<"t", "r", "u", "e">>

\* a variant in which a process node has no successor
executeControlFlowNodeProcessEnds(node, edges, variables) ==
  CASE node.kind = "start" ->
         Outcome(FirstTarget(edges, node.id), variables, <<>>,
                 StepOf(node.id, "start", "Workflow started"))
    [] node.kind = "end" ->
         Outcome(Null, variables, <<>>, StepOf(node.id, "end", "Workflow completed"))
    [] node.kind = "decision" ->
         LET r == evaluateCondition(
                    IF node.condition = <<>> THEN DefaultCondition ELSE node.condition,
                    variables)
             outgoing == OutgoingEdges(edges, node.id)
         IN Outcome(IF r.result THEN BranchTarget(outgoing, "yes", 1)
                                ELSE BranchTarget(outgoing, "no", 2),
                    variables, r.errors,
                    StepOf(node.id, "decision", IF r.result THEN "true" ELSE "false"))
    [] OTHER ->
         Outcome(Null, variables, <<>>, StepOf(node.id, "process", "Processed"))

executeControlFlowNode(node, edges, variables) ==
  CASE node.kind = "start" ->
         Outcome(FirstTarget(edges, node.id), variables, <<>>,
                 StepOf(node.id, "start", "Workflow started"))
    [] node.kind = "end" ->
         Outcome(Null, variables, <<>>, StepOf(node.id, "end", "Workflow completed"))
    [] node.kind = "decision" ->
         LET r == evaluateCondition(
                    IF node.condition = <<>> THEN DefaultCondition ELSE node.condition,
                    variables)
             outgoing == OutgoingEdges(edges, node.id)
         IN Outcome(IF r.result THEN BranchTarget(outgoing, "yes", 1)
                                ELSE BranchTarget(outgoing, "no", 2),
                    variables, r.errors,
                    StepOf(node.id, "decision", IF r.result THEN "true" ELSE "false"))
    [] OTHER ->
         Outcome(FirstTarget(edges, node.id), variables, <<>>,
                 StepOf(node.id, "process", "Processed"))

executeStickyNoteNode(node, edges, variables) ==
  IF ~node.textContent THEN Thrown(variables, StepOf(node.id, "note", "content"))
  ELSE LET m == AssignmentMatch(node.content)
           value == parseValue(Trim(m.value))
       IN [Outcome(FirstTarget(edges, node.id),
                   IF m.ok THEN WriteVariable(variables, Trim(m.name), value, inferType(value))
                           ELSE variables,
                   <<>>,
                   StepOf(node.id, "note", IF m.ok THEN "variable" ELSE "content"))
             EXCEPT !.wrote = m.ok]

executeTextFileNode(node, edges, variables) ==
  Outcome(FirstTarget(edges, node.id), variables, <<>>, StepOf(node.id, "file", "content"))

executeShapeNode(node, edges, variables) ==
  Outcome(FirstTarget(edges, node.id), variables, <<>>, StepOf(node.id, "shape", "shape"))

\* a variant that passes through a node of unknown type as through a shape
executeNodeAnyType(node, edges, variables) ==
  CASE node.type = "control-flow" -> executeControlFlowNode(node, edges, variables)
    [] node.type = "sticky-note" -> executeStickyNoteNode(node, edges, variables)
    [] node.type = "text-file" -> executeTextFileNode(node, edges, variables)
    [] OTHER -> executeShapeNode(node, edges, variables)

executeNode(node, edges, variables) ==
  CASE node.type = "control-flow" -> executeControlFlowNode(node, edges, variables)
    [] node.type = "sticky-note" -> executeStickyNoteNode(node, edges, variables)
    [] node.type = "text-file" -> executeTextFileNode(node, edges, variables)
    [] node.type = "shape" -> executeShapeNode(node, edges, variables)
    [] OTHER -> Outcome(Null, variables, <<"Unknown node type">>,
                        StepOf(node.id, "execute", "none"))


(***************************************************************************)
(* The canvases the ExecutionPanel may hand to executeWorkflow.            *)
(***************************************************************************)
XGreater10 == <<"x", " ", ">", " ", "1", "0">>

XIs15 == <<"x", " ", "=", " ", "1", "5">>

XIsNull == <<"x", " ", "=", " ", "n", "u", "l", "l">>

\* a condition without any of the four operators
Ok == <<"o", "k">>

Graph(nodes, edges) == [nodes |-> nodes, edges |-> edges]

Graphs ==
  << \* 1: no node at all
     Graph(<<>>, <<>>),
     \* 2: no start node
     Graph(<<ControlFlow("p", "process"), ControlFlow("e", "end")>>, <<Edge("p", "e")>>),
     \* 3: a decision reads x, its "no" branch writes x; the end node has an
     \*    outgoing edge
     Graph(<<ControlFlow("s", "start"), Decision("d", XGreater10),
             StickyNote("a", XIs15), ControlFlow("e", "end"),
             ControlFlow("p", "process")>>,
           <<Edge("s", "d"), EdgeOf("d", "a", "no"), EdgeOf("d", "e", "yes"),
             Edge("e", "p")>>),
     \* 4: the start node has two outgoing edges, the first to a dead end
     Graph(<<ControlFlow("s", "start"), NodeOf("f", "text-file", ""),
             ControlFlow("e", "end")>>,
           <<Edge("s", "f"), Edge("s", "e")>>),
     \* 5: a note whose content is not text
     Graph(<<ControlFlow("s", "start"), Malformed(StickyNote("a", <<>>)),
             ControlFlow("e", "end")>>,
           <<Edge("s", "a"), Edge("a", "e")>>),
     \* 6: an edge to a node that is not in the list, the first of two edges
     Graph(<<ControlFlow("s", "start"), NodeOf("h", "shape", "")>>,
           <<Edge("s", "h"), Edge("h", "gone"), Edge("h", "s")>>),
     \* 7: a node of the editor's type "code"
     Graph(<<ControlFlow("s", "start"), NodeOf("c", "code", ""), ControlFlow("e", "end")>>,
           <<Edge("s", "c"), Edge("c", "e")>>),
     \* 8: a cycle; the process node has a second edge
     Graph(<<ControlFlow("s", "start"), ControlFlow("p", "process")>>,
           <<Edge("s", "p"), Edge("p", "s"), Edge("p", "p")>>),
     \* 9: a decision without tagged edges; its second branch writes null
     Graph(<<ControlFlow("s", "start"), Decision("d", XGreater10),
             StickyNote("a", XIsNull), ControlFlow("e", "end")>>,
           <<Edge("s", "d"), Edge("d", "e"), Edge("d", "a")>>),
     \* 10: a chain from the start node over a note that writes x to the end node
     Graph(<<ControlFlow("e", "end"), StickyNote("a", XIs15), ControlFlow("s", "start")>>,
           <<Edge("a", "e"), Edge("s", "a")>>),
     \* 11: a cycle the start node reaches by its second edge only
     Graph(<<ControlFlow("s", "start"), ControlFlow("e", "end"),
             ControlFlow("p", "process")>>,
           <<Edge("s", "e"), Edge("s", "p"), Edge("p", "s")>>),
     \* 12: a decision without operator, then a decision with one untagged edge
     Graph(<<ControlFlow("s", "start"), Decision("k", Ok), Decision("d", XGreater10),
             ControlFlow("e", "end")>>,
           <<Edge("s", "k"), Edge("k", "d"), Edge("d", "e")>>),
     \* 13: a note writes x, then a decision without outgoing edge reads it
     Graph(<<ControlFlow("s", "start"), StickyNote("a", XIs15), Decision("d", XGreater10)>>,
           <<Edge("s", "a"), Edge("a", "d")>>),
     \* 14: a decision whose condition is true and whose only edge is tagged "no"
     Graph(<<ControlFlow("s", "start"), Decision("d", Ok), ControlFlow("e", "end")>>,
           <<Edge("s", "d"), EdgeOf("d", "e", "no")>>),
     \* 15: a control-flow node of a kind the engine does not know
     Graph(<<ControlFlow("s", "start"), ControlFlow("c", "loop"), ControlFlow("e", "end")>>,
           <<Edge("s", "c"), Edge("c", "e")>>) >>

\* the values another caller may pass to setVariable("x", value)
SetValues == {NumberValue(5), NumberValue(15)}

(***************************************************************************)
(* The canvas store and its undo/redo log.  A node is its id and one field *)
(* of its data, an edge is its id and its ends, a group is its id.  A      *)
(* command is a record with its type and the fields of its payload.        *)
(***************************************************************************)
maxHistorySize == 50

CNode(id, label) == [id |-> id, label |-> label]

CEdge(id, source, target) == [id |-> id, source |-> source, target |-> target]

InitialCanvas ==
  [nodes |-> <<>>, edges |-> <<>>, groups |-> <<>>, history |-> <<>>, historyIndex |-> 0 - 1]

\* seq.filter(item => item.id !== id)
WithoutId(seq, id) == SelectSeq(seq, LAMBDA item : item.id # id)

\* seq.findIndex(item => item.id === id), counted from 1; 0: none
IndexOfId(seq, id) == FirstOf({i \in 1..Len(seq) : seq[i].id = id})

applyCommand(c, command) ==
  CASE command.type = "ADD_NODE" -> [c EXCEPT !.nodes = Append(@, command.node)]
    [] command.type = "DELETE_NODE" ->
         [c EXCEPT !.nodes = WithoutId(@, command.nodeId),
                   !.edges = SelectSeq(@, LAMBDA e : /\ e.source # command.nodeId
                                                    /\ e.target # command.nodeId)]
    [] command.type = "UPDATE_NODE" ->
         IF IndexOfId(c.nodes, command.nodeId) = 0 THEN c
         ELSE [c EXCEPT !.nodes[IndexOfId(c.nodes, command.nodeId)].label = command.updates]
    [] command.type = "ADD_EDGE" -> [c EXCEPT !.edges = Append(@, command.edge)]
    [] command.type = "DELETE_EDGE" -> [c EXCEPT !.edges = WithoutId(@, command.edgeId)]
    [] command.type = "CREATE_GROUP" -> [c EXCEPT !.groups = Append(@, command.group)]
    [] command.type = "DELETE_GROUP" -> [c EXCEPT !.groups = WithoutId(@, command.groupId)]
    [] command.type = "CLEAR_CANVAS" ->
         [c EXCEPT !.nodes = <<>>, !.edges = <<>>, !.groups = <<>>]
    [] OTHER -> c

applyReverseCommand(c, command) ==
  CASE command.type = "ADD_NODE" -> [c EXCEPT !.nodes = WithoutId(@, command.node.id)]
    [] command.type = "DELETE_NODE" ->
         [c EXCEPT !.nodes = Append(@, command.node), !.edges = @ \o command.edges]
    [] command.type = "UPDATE_NODE" ->
         IF IndexOfId(c.nodes, command.nodeId) = 0 THEN c
         ELSE [c EXCEPT !.nodes[IndexOfId(c.nodes, command.nodeId)] = command.previousNode]
    [] command.type = "ADD_EDGE" -> [c EXCEPT !.edges = WithoutId(@, command.edge.id)]
    [] command.type = "DELETE_EDGE" -> [c EXCEPT !.edges = Append(@, command.edge)]
    [] command.type = "CREATE_GROUP" -> [c EXCEPT !.groups = WithoutId(@, command.group.id)]
    [] command.type = "DELETE_GROUP" -> [c EXCEPT !.groups = Append(@, command.group)]
    [] command.type = "CLEAR_CANVAS" ->
         [c EXCEPT !.nodes = command.previousNodes,
                   !.edges = command.previousEdges,
                   !.groups = command.previousGroups]
    [] OTHER -> c

executeCommand(c, command) ==
  LET kept == Append(SubSeq(c.history, 1, c.historyIndex + 1), command)
      logged == IF Len(kept) > maxHistorySize
                THEN [c EXCEPT !.history = Tail(kept)]
                ELSE [c EXCEPT !.history = kept, !.historyIndex = @ + 1]
  IN applyCommand(logged, command)

canUndo(c) == c.historyIndex >= 0

canRedo(c) == c.historyIndex < Len(c.history) - 1

undo(c) ==
  IF canUndo(c)
  THEN [applyReverseCommand(c, c.history[c.historyIndex + 1]) EXCEPT !.historyIndex = @ - 1]
  ELSE c

redo(c) ==
  IF canRedo(c)
  THEN applyCommand([c EXCEPT !.historyIndex = @ + 1], c.history[c.historyIndex + 2])
  ELSE c

\* createGroup, with the id it draws
createGroup(c, id) == executeCommand(c, [type |-> "CREATE_GROUP", group |-> [id |-> id]])

deleteGroup(c, groupId) ==
  IF IndexOfId(c.groups, groupId) = 0 THEN c
  ELSE executeCommand(c, [type |-> "DELETE_GROUP", groupId |-> groupId,
                          group |-> c.groups[IndexOfId(c.groups, groupId)]])

\* importCanvas on the text of a canvas that parses to data
importCanvas(c, data) ==
  LET cleared == executeCommand(c, [type |-> "CLEAR_CANVAS",
                                    previousNodes |-> c.nodes,
                                    previousEdges |-> c.edges,
                                    previousGroups |-> c.groups])
  IN [cleared EXCEPT !.nodes = data.nodes, !.edges = data.edges, !.groups = data.groups]

(***************************************************************************)
(* State.                                                                  *)
(*   graph             the canvas (an index of Graphs) executeWorkflow gets*)
(*   context           this.context                                        *)
(*   executionHistory  this.executionHistory                               *)
(*   pending           the executeWorkflow calls in flight: a bag with   *)
(*                     one continuation per call, saying which timer it  *)
(*                     awaits (pc: the pacing "delay" or the pause poll  *)
(*                     "waiting") and the node it is visiting (delay) or *)
(*                     about to enter (waiting)                          *)
(*   rejected          the promise of some executeWorkflow call rejected *)
(*   calls             the number of executeWorkflow calls made            *)
(*   controls          the number of control calls made                    *)
(*   lastControl       history: the control call made last                 *)
(*   interfered        history: stop(), reset() or executeWorkflow was     *)
(*                     called while a traversal was in flight              *)
(*   disturbed         history: reset() or executeWorkflow was called      *)
(*                     while a traversal was in flight                     *)
(*   delivered         the context as the listeners saw it when            *)
(*                     notifyListeners called them last                    *)
(*   twin              a second ExecutionEngine instance, as an engine     *)
(*                     state; it stays as constructed unless the           *)
(*                     behaviour is one of two instances side by side      *)
(*   canvas            the canvas store: the nodes, edges and groups of    *)
(*                     its state, its command log (history) and the        *)
(*                     position in it (historyIndex, -1: none)             *)
(***************************************************************************)
VARIABLES graph, context, executionHistory, pending, rejected, calls, controls,
          lastControl, interfered, disturbed, delivered, twin, canvas

vars ==
  <<graph, context, executionHistory, pending, rejected, calls, controls, lastControl,
    interfered, disturbed, delivered, twin, canvas>>

InitialContext ==
  [variables |-> <<>>, currentNodeId |-> Null, isRunning |-> FALSE, isPaused |-> FALSE,
   executionPath |-> <<>>, errors |-> <<>>]

Continuation(pc, nodeId) == [pc |-> pc, nodeId |-> nodeId]

\* a newly constructed engine whose store was then filled with variables,
\* as an engine state
Constructed(variables) ==
  [context |-> [InitialContext EXCEPT !.variables = variables],
   executionHistory |-> <<>>,
   delivered |-> [InitialContext EXCEPT !.variables = variables],
   pc |-> "none", nodeId |-> Null, raised |-> FALSE]

\* the number of executeWorkflow calls in flight
InFlight == BagCardinality(pending)

AnyInFlight == InFlight > 0

Nodes == Graphs[graph].nodes

Edges == Graphs[graph].edges

(***************************************************************************)
(* The engine's code between two suspension points, as a function of the   *)
(* engine state e = [context, executionHistory, pc, nodeId, raised].       *)
(***************************************************************************)
EngineState(c) ==
  [context |-> context, executionHistory |-> executionHistory, delivered |-> delivered,
   pc |-> c.pc, nodeId |-> c.nodeId, raised |-> FALSE]

\* this.listeners.forEach(listener => listener(this.context))
notifyListeners(e) == [e EXCEPT !.delivered = e.context]

addError(e, message) == notifyListeners([e EXCEPT !.context.errors = Append(@, message)])

RECURSIVE addErrors(_, _)
addErrors(e, messages) ==
  IF messages = <<>> THEN e ELSE addErrors(addError(e, Head(messages)), Tail(messages))

\* a variant that leaves the cursor on the last node
FinallyKeepsCursor(e) ==
  notifyListeners([e EXCEPT !.context.isRunning = FALSE, !.pc = "done"])

\* the finally block of executeWorkflow; the promise then resolves
Finally(e) ==
  notifyListeners([e EXCEPT !.context.isRunning = FALSE,
                            !.context.currentNodeId = Null,
                            !.pc = "done"])

\* a variant that sets the cursor and forgets to record the visit
EnterNodeUnrecorded(e, nodes, nodeId) ==
  IF NodeIndex(nodes, nodeId) = 0
  THEN Finally(addError(e, "Node not found"))
  ELSE notifyListeners([e EXCEPT !.context.currentNodeId = nodeId,
                                 !.pc = "delay",
                                 !.nodeId = nodeId])

\* a variant that ends on a missing node without recording an error
EnterNodeMissingSilent(e, nodes, nodeId) ==
  IF NodeIndex(nodes, nodeId) = 0
  THEN Finally(e)
  ELSE notifyListeners([e EXCEPT !.context.currentNodeId = nodeId,
                                 !.context.executionPath = Append(@, nodeId),
                                 !.pc = "delay",
                                 !.nodeId = nodeId])

\* a variant that does the node's work on entry, before the pacing delay, and
\* again after it
EnterNodeEager(e, nodes, nodeId) ==
  IF NodeIndex(nodes, nodeId) = 0
  THEN Finally(addError(e, "Node not found"))
  ELSE LET r == executeNode(nodes[NodeIndex(nodes, nodeId)], <<>>, e.context.variables)
       IN notifyListeners([e EXCEPT !.context.currentNodeId = nodeId,
                                    !.context.executionPath = Append(@, nodeId),
                                    !.executionHistory = Append(@, r.step),
                                    !.pc = "delay",
                                    !.nodeId = nodeId])

\* executeFromNode from the node lookup to the pacing delay
EnterNode(e, nodes, nodeId) ==
  IF NodeIndex(nodes, nodeId) = 0
  THEN Finally(addError(e, "Node not found"))
  ELSE notifyListeners([e EXCEPT !.context.currentNodeId = nodeId,
                                 !.context.executionPath = Append(@, nodeId),
                                 !.pc = "delay",
                                 !.nodeId = nodeId])

\* a variant without the pause check
executeFromNodeUnpaused(e, nodes, nodeId) == EnterNode(e, nodes, nodeId)

\* a variant whose pause wait looks at the flag once and arms no timer: the
\* promise of waitForResume is never resolved
executeFromNodeParked(e, nodes, nodeId) ==
  IF e.context.isPaused
  THEN [e EXCEPT !.pc = "parked", !.nodeId = nodeId]
  ELSE EnterNode(e, nodes, nodeId)

\* executeFromNode from its first line: the pause check, then the entry
executeFromNode(e, nodes, nodeId) ==
  IF e.context.isPaused
  THEN [e EXCEPT !.pc = "waiting", !.nodeId = nodeId]
  ELSE EnterNode(e, nodes, nodeId)

\* a variant that records the error and no trace entry
CatchNodeUnrecorded(e, step) == Finally(addError(e, "Error executing node"))

\* a variant that records the error and throws it on, to the catch block of
\* executeWorkflow
CatchNodeRethrows(e, step) ==
  Finally(addError(addError([e EXCEPT !.executionHistory =
                                        Append(@, [step EXCEPT !.output = "error"])],
                            "Error executing node"),
                   "Execution error"))

\* the catch block of executeFromNode; its return null ends the run
CatchNode(e, step) ==
  Finally(addError([e EXCEPT !.executionHistory = Append(@, [step EXCEPT !.output = "error"])],
                   "Error executing node"))

\* the engine state once executeNode has returned r or thrown: the variable
\* setVariable wrote (it notifies) and the errors addError appended
Executed(e, r) ==
  addErrors(IF r.wrote THEN notifyListeners([e EXCEPT !.context.variables = r.variables])
                       ELSE e,
            r.errors)

\* a variant that honours the pause flag before the node's work: the visit
\* waits, and is made again from its entry once the flag is cleared
AfterDelayPausable(e, nodes, edges) ==
  LET node == nodes[NodeIndex(nodes, e.nodeId)]
      r == executeNode(node, edges, e.context.variables)
      done == Executed(e, r)
      recorded == [done EXCEPT !.executionHistory = Append(@, r.step)]
  IN IF e.context.isPaused
     THEN [e EXCEPT !.pc = "waiting",
                    !.context.executionPath = SubSeq(@, 1, Len(@) - 1)]
     ELSE IF r.threw THEN CatchNode(done, r.step)
     ELSE IF r.next # Null /\ node.kind # "end"
     THEN executeFromNode(recorded, nodes, r.next)
     ELSE Finally(recorded)

\* a variant that leaves an end node by its outgoing edge
AfterDelayThroughEnd(e, nodes, edges) ==
  LET node == nodes[NodeIndex(nodes, e.nodeId)]
      r == executeNode(node, edges, e.context.variables)
      done == Executed(e, r)
      recorded == [done EXCEPT !.executionHistory = Append(@, r.step)]
      next == IF node.kind = "end" THEN FirstTarget(edges, node.id) ELSE r.next
  IN IF r.threw THEN CatchNode(done, r.step)
     ELSE IF next # Null
     THEN executeFromNode(recorded, nodes, next)
     ELSE Finally(recorded)

\* executeFromNode after the pacing delay
AfterDelay(e, nodes, edges) ==
  LET node == nodes[NodeIndex(nodes, e.nodeId)]
      r == executeNode(node, edges, e.context.variables)
      done == Executed(e, r)
      recorded == [done EXCEPT !.executionHistory = Append(@, r.step)]
  IN IF r.threw THEN CatchNode(done, r.step)
     ELSE IF r.next # Null /\ node.kind # "end"
     THEN executeFromNode(recorded, nodes, r.next)
     ELSE Finally(recorded)

\* a variant that forgets the data.type test
StartIndexAnyKind(nodes) ==
  FirstOf({i \in 1..Len(nodes) : nodes[i].type = "control-flow"})

\* nodes.find(node => node.type === 'control-flow' && node.data.type === 'start')
StartIndex(nodes) ==
  FirstOf({i \in 1..Len(nodes) : nodes[i].type = "control-flow" /\ nodes[i].kind = "start"})

\* a variant that starts every run with an empty variable store
StartWorkflowFresh(e, nodes) ==
  LET begun == notifyListeners([e EXCEPT !.context.isRunning = TRUE,
                                         !.context.isPaused = FALSE,
                                         !.context.executionPath = <<>>,
                                         !.context.errors = <<>>,
                                         !.context.variables = <<>>,
                                         !.executionHistory = <<>>])
  IN IF StartIndex(nodes) = 0
     THEN Finally(addError(begun, "No start node found"))
     ELSE executeFromNode(begun, nodes, nodes[StartIndex(nodes)].id)

\* executeWorkflow up to its first suspension point
StartWorkflow(e, nodes) ==
  LET begun == notifyListeners([e EXCEPT !.context.isRunning = TRUE,
                                         !.context.isPaused = FALSE,
                                         !.context.executionPath = <<>>,
                                         !.context.errors = <<>>,
                                         !.executionHistory = <<>>])
  IN IF StartIndex(nodes) = 0
     THEN Finally(addError(begun, "No start node found"))
     ELSE executeFromNode(begun, nodes, nodes[StartIndex(nodes)].id)


(***************************************************************************)
(* Actions.  The engine runs on one thread: the code between two awaits of *)
(* a timer (the pacing delay, the pause poll) is one step.                 *)
(***************************************************************************)
Init ==
  /\ graph \in 1..Len(Graphs)
  /\ context = InitialContext
  /\ executionHistory = <<>>
  /\ pending = EmptyBag
  /\ rejected = FALSE
  /\ calls = 0
  /\ controls = 0
  /\ lastControl = "none"
  /\ interfered = FALSE
  /\ disturbed = FALSE
  /\ delivered = InitialContext
  /\ twin = Constructed(<<>>)
  /\ canvas = InitialCanvas

\* the engine state e, reached by running a call's code, becomes the state;
\* the call is in flight again unless its promise settled
Commit(others, e) ==
  /\ Len(e.context.executionPath) <= MaxPath
  /\ context' = e.context
  /\ executionHistory' = e.executionHistory
  /\ delivered' = e.delivered
  /\ pending' = IF e.pc = "done" THEN others
                ELSE others (+) SetToBag({Continuation(e.pc, e.nodeId)})
  /\ rejected' = (rejected \/ e.raised)

\* executionEngine.executeWorkflow(state.nodes, state.edges)
ExecuteWorkflow ==
  /\ calls < MaxCalls
  /\ Commit(pending, StartWorkflow(EngineState(Continuation("none", Null)), Nodes))
  /\ calls' = calls + 1
  /\ interfered' = (interfered \/ AnyInFlight)
  /\ disturbed' = (disturbed \/ AnyInFlight)
  /\ UNCHANGED <<graph, controls, lastControl, twin, canvas>>

\* the timer of delay(500) fires for the call with continuation c
DelayElapsed(c) ==
  /\ c.pc = "delay"
  /\ Commit(pending (-) SetToBag({c}), AfterDelay(EngineState(c), Nodes, Edges))
  /\ UNCHANGED <<graph, calls, controls, lastControl, interfered, disturbed, twin, canvas>>

\* checkResume of waitForResume finds the pause flag cleared, for the call
\* with continuation c (while the flag is set it only re-arms its 100 ms timer)
CheckResume(c) ==
  /\ c.pc = "waiting"
  /\ ~context.isPaused
  /\ Commit(pending (-) SetToBag({c}), EnterNode(EngineState(c), Nodes, c.nodeId))
  /\ UNCHANGED <<graph, calls, controls, lastControl, interfered, disturbed, twin, canvas>>

\* one more control call
Control == controls < MaxControls /\ controls' = controls + 1

\* a variant that sets the flag and does not call the listeners
pauseSilent ==
  /\ Control
  /\ context' = [context EXCEPT !.isPaused = TRUE]
  /\ lastControl' = "pause"
  /\ UNCHANGED <<graph, executionHistory, pending, rejected, calls, interfered, disturbed,
                 delivered, twin, canvas>>

pause ==
  /\ Control
  /\ context' = [context EXCEPT !.isPaused = TRUE]
  /\ lastControl' = "pause"
  /\ delivered' = context'
  /\ UNCHANGED <<graph, executionHistory, pending, rejected, calls, interfered, disturbed,
                 twin, canvas>>

resume ==
  /\ Control
  /\ context' = [context EXCEPT !.isPaused = FALSE]
  /\ lastControl' = "resume"
  /\ delivered' = context'
  /\ UNCHANGED <<graph, executionHistory, pending, rejected, calls, interfered, disturbed,
                 twin, canvas>>

\* a variant that leaves the pause flag as it is
stopKeepsPaused ==
  /\ Control
  /\ context' = [context EXCEPT !.isRunning = FALSE,
                                !.currentNodeId = Null]
  /\ lastControl' = "stop"
  /\ interfered' = (interfered \/ AnyInFlight)
  /\ delivered' = context'
  /\ UNCHANGED <<graph, executionHistory, pending, rejected, calls, disturbed, twin, canvas>>

\* a variant that also cancels the traversals in flight
stopCancels ==
  /\ Control
  /\ context' = [context EXCEPT !.isRunning = FALSE,
                                !.isPaused = FALSE,
                                !.currentNodeId = Null]
  /\ pending' = EmptyBag
  /\ lastControl' = "stop"
  /\ interfered' = (interfered \/ AnyInFlight)
  /\ delivered' = context'
  /\ UNCHANGED <<graph, executionHistory, rejected, calls, disturbed, twin, canvas>>

stop ==
  /\ Control
  /\ context' = [context EXCEPT !.isRunning = FALSE,
                                !.isPaused = FALSE,
                                !.currentNodeId = Null]
  /\ lastControl' = "stop"
  /\ interfered' = (interfered \/ AnyInFlight)
  /\ delivered' = context'
  /\ UNCHANGED <<graph, executionHistory, pending, rejected, calls, disturbed, twin, canvas>>

\* a variant that also cancels the traversals in flight
resetCancels ==
  /\ Control
  /\ context' = InitialContext
  /\ executionHistory' = <<>>
  /\ pending' = EmptyBag
  /\ lastControl' = "reset"
  /\ interfered' = (interfered \/ AnyInFlight)
  /\ disturbed' = (disturbed \/ AnyInFlight)
  /\ delivered' = context'
  /\ UNCHANGED <<graph, rejected, calls, twin, canvas>>

\* a variant that keeps the variable store
resetKeepsVariables ==
  /\ Control
  /\ context' = [InitialContext EXCEPT !.variables = context.variables]
  /\ executionHistory' = <<>>
  /\ lastControl' = "reset"
  /\ interfered' = (interfered \/ AnyInFlight)
  /\ disturbed' = (disturbed \/ AnyInFlight)
  /\ delivered' = context'
  /\ UNCHANGED <<graph, pending, rejected, calls, twin, canvas>>

reset ==
  /\ Control
  /\ context' = InitialContext
  /\ executionHistory' = <<>>
  /\ lastControl' = "reset"
  /\ interfered' = (interfered \/ AnyInFlight)
  /\ disturbed' = (disturbed \/ AnyInFlight)
  /\ delivered' = context'
  /\ UNCHANGED <<graph, pending, rejected, calls, twin, canvas>>

\* setVariable("x", value) by another caller, the type inferred
setVariable(value) ==
  /\ Control
  /\ context' = [context EXCEPT
                   !.variables = WriteVariable(@, <<"x">>, value, inferType(value))]
  /\ lastControl' = "setVariable"
  /\ delivered' = context'
  /\ UNCHANGED <<graph, executionHistory, pending, rejected, calls, interfered, disturbed,
                 twin, canvas>>

Next ==
  \/ ExecuteWorkflow
  \/ \E c \in BagToSet(pending) : DelayElapsed(c)
  \/ \E c \in BagToSet(pending) : CheckResume(c)
  \/ pause
  \/ resume
  \/ stop
  \/ reset
  \/ \E value \in SetValues : setVariable(value)

Spec == Init /\ [][Next]_vars


(***************************************************************************)
(* Vocabulary of the properties.                                           *)
(***************************************************************************)
\* the step is a call of executeWorkflow
ExecuteStep == calls' = calls + 1

\* the step is the control call op
ControlStep(op) == controls' = controls + 1 /\ lastControl' = op

\* the step is the code run when a timer fires (a delay or a pause poll)
TimerStep == calls' = calls /\ controls' = controls /\ vars' # vars

Last(seq) == seq[Len(seq)]

IsStart(n) == n.type = "control-flow" /\ n.kind = "start"

IsEnd(n) == n.type = "control-flow" /\ n.kind = "end"

NodeIds(nodes) == {nodes[i].id : i \in 1..Len(nodes)}

NodeById(nodes, id) == nodes[CHOOSE i \in 1..Len(nodes) : nodes[i].id = id]

StartIds(nodes) == {nodes[i].id : i \in {j \in 1..Len(nodes) : IsStart(nodes[j])}}

EndIds(nodes) == {nodes[i].id : i \in {j \in 1..Len(nodes) : IsEnd(nodes[j])}}

\* the node ids reachable from the ids in S along edges of the graph
RECURSIVE Reachable(_, _)
Reachable(S, edges) ==
  LET T == S \cup {edges[i].target : i \in {j \in 1..Len(edges) : edges[j].source \in S}}
  IN IF T = S THEN S ELSE Reachable(T, edges)

\* exactly one start node, and an end node reachable from it
HasReachableEnd(nodes, edges) ==
  /\ Cardinality(StartIds(nodes)) = 1
  /\ Reachable(StartIds(nodes), edges) \cap EndIds(nodes) # {}

\* the targets of the edges that leave node id
Successors(edges, id) == {edges[i].target : i \in {j \in 1..Len(edges) : edges[j].source = id}}

\* a node the engine passes straight through: a start or process node, a note
\* with text content, a file or a shape
PassesThrough(n) ==
  \/ n.type = "control-flow" /\ n.kind \in {"start", "process"}
  \/ n.type = "sticky-note" /\ n.textContent
  \/ n.type \in {"text-file", "shape"}

\* the ids from id on, each node having one outgoing edge and passing
\* straight through, up to an end node; <<>> when there is no such chain
RECURSIVE ChainFrom(_, _, _, _)
ChainFrom(nodes, edges, id, fuel) ==
  IF fuel = 0 \/ id \notin NodeIds(nodes) THEN <<>>
  ELSE IF IsEnd(NodeById(nodes, id)) THEN <<id>>
  ELSE IF ~PassesThrough(NodeById(nodes, id)) \/ Cardinality(Successors(edges, id)) # 1
          \/ Len(OutgoingEdges(edges, id)) # 1
  THEN <<>>
  ELSE LET rest == ChainFrom(nodes, edges, CHOOSE x \in Successors(edges, id) : TRUE,
                             fuel - 1)
       IN IF rest = <<>> THEN <<>> ELSE <<id>> \o rest

\* the chain from the only start node to an end node, <<>> when there is none
Chain(nodes, edges) ==
  IF Cardinality(StartIds(nodes)) # 1 THEN <<>>
  ELSE ChainFrom(nodes, edges, CHOOSE x \in StartIds(nodes) : TRUE, Len(nodes))

(***************************************************************************)
(* C1.  For a graph without start node, executeWorkflow appends exactly    *)
(* one error ("No start node found"), leaves executionPath empty, records  *)
(* no trace entry, and ends with isRunning false and currentNodeId null,   *)
(* no traversal being started.                                             *)
(***************************************************************************)
C1_NoStartNode ==
  [][(ExecuteStep /\ StartIds(Nodes) = {}) =>
       /\ context'.errors = <<"No start node found">>
       /\ context'.executionPath = <<>>
       /\ executionHistory' = <<>>
       /\ context'.isRunning = FALSE
       /\ context'.currentNodeId = Null
       /\ pending' = pending]_vars

C1_Witness ==
  /\ calls > 0
  /\ Nodes # <<>>
  /\ StartIds(Nodes) = {}
  /\ context.errors = <<"No start node found">>
  /\ ~context.isRunning

\* the only call in flight completes, no run having been interfered with
RunFinishes == TimerStep /\ InFlight = 1 /\ BagCardinality(pending') = 0 /\ ~interfered

(***************************************************************************)
(* C2, as claimed.  For a graph with exactly one start node and an end     *)
(* node reachable from it, a run that was not stopped, reset or overlapped *)
(* finishes with the last element of executionPath the id of a reachable   *)
(* end node and with isRunning false.                                      *)
(***************************************************************************)
C2_AsClaimed ==
  [][(RunFinishes /\ HasReachableEnd(Nodes, Edges)) =>
       /\ context'.executionPath # <<>>
       /\ Last(context'.executionPath) \in Reachable(StartIds(Nodes), Edges) \cap EndIds(Nodes)
       /\ context'.isRunning = FALSE]_vars

(***************************************************************************)
(* C2, amended.  When the start node is linked to an end node by a chain   *)
(* in which every node before the end has exactly one outgoing edge and is *)
(* a start or process node, a text note, a file or a shape, a run that was *)
(* not stopped, reset or overlapped finishes with executionPath equal to   *)
(* that chain, so its last element is the end node's id, and with          *)
(* isRunning false.                                                        *)
(***************************************************************************)
C2_ChainReachesEnd ==
  [][(RunFinishes /\ Chain(Nodes, Edges) # <<>>) =>
       /\ context'.executionPath = Chain(Nodes, Edges)
       /\ Last(context'.executionPath) \in EndIds(Nodes)
       /\ context'.isRunning = FALSE]_vars

C2_Witness ==
  /\ Chain(Nodes, Edges) # <<>>
  /\ calls > 0
  /\ InFlight = 0
  /\ ~interfered
  /\ context.executionPath = Chain(Nodes, Edges)
  /\ Len(context.executionPath) = 3
  /\ ~context.isRunning


\* the executor of node id throws
VisitThrows(id) ==
  /\ id \in NodeIds(Nodes)
  /\ NodeById(Nodes, id).type = "sticky-note"
  /\ ~NodeById(Nodes, id).textContent

\* every call in flight is in the pacing delay of a node whose executor throws
AllAboutToThrow ==
  /\ InFlight > 0
  /\ \A c \in BagToSet(pending) : c.pc = "delay" /\ VisitThrows(c.nodeId)

(***************************************************************************)
(* C3.  executeWorkflow never raises to its caller: no promise it returns  *)
(* is rejected; and when the node visited throws (a note whose content is  *)
(* not text), exactly one message is appended to errors, the traversal     *)
(* ends, and the call completes with isRunning false and currentNodeId     *)
(* null.                                                                   *)
(***************************************************************************)
C3_NeverRaises ==
  /\ [](~rejected)
  /\ [][(TimerStep /\ AllAboutToThrow) =>
          /\ Len(context'.errors) = Len(context.errors) + 1
          /\ SubSeq(context'.errors, 1, Len(context.errors)) = context.errors
          /\ BagCardinality(pending') = InFlight - 1
          /\ context'.executionPath = context.executionPath
          /\ context'.isRunning = FALSE
          /\ context'.currentNodeId = Null]_vars

C3_Witness ==
  /\ calls = 1
  /\ InFlight = 0
  /\ ~rejected
  /\ context.executionPath # <<>>
  /\ VisitThrows(Last(context.executionPath))
  /\ Len(context.errors) = 1
  /\ ~context.isRunning

(***************************************************************************)
(* C4.  At most one traversal is ever in flight: a second executeWorkflow  *)
(* call made while an earlier one is in flight is rejected or queued.      *)
(***************************************************************************)
C4_OneTraversalInFlight == InFlight <= 1

(***************************************************************************)
(* C5.  stop() sets isRunning and isPaused to false and currentNodeId to   *)
(* null at once and cancels nothing: the calls in flight stay in flight,   *)
(* so the traversal goes on entering nodes, writing variables and trace    *)
(* entries while isRunning is false (the witness).                         *)
(***************************************************************************)
C5_StopDoesNotCancel ==
  [][ControlStep("stop") =>
       /\ context'.isRunning = FALSE
       /\ context'.isPaused = FALSE
       /\ context'.currentNodeId = Null
       /\ pending' = pending
       /\ context'.executionPath = context.executionPath
       /\ context'.variables = context.variables
       /\ executionHistory' = executionHistory]_vars

\* stop() was the only control call, of the only run; afterwards the run
\* entered a node, wrote a variable and recorded trace entries
C5_Witness ==
  /\ calls = 1
  /\ controls = 1
  /\ lastControl = "stop"
  /\ ~context.isRunning
  /\ context.currentNodeId # Null
  /\ InFlight = 1
  /\ Len(context.executionPath) >= 2
  /\ context.variables # <<>>
  /\ executionHistory # <<>>


(***************************************************************************)
(* C6.  As long as stop(), reset() or executeWorkflow was never called     *)
(* while a traversal was in flight, isRunning = false implies              *)
(* currentNodeId = null.                                                   *)
(***************************************************************************)
C6_IdleHasNoCursor ==
  (~interfered /\ ~context.isRunning) => context.currentNodeId = Null

\* a run that visited nodes has completed, with or without errors
C6_Witness ==
  /\ ~interfered
  /\ calls > 0
  /\ InFlight = 0
  /\ ~context.isRunning
  /\ context.executionPath # <<>>
  /\ context.currentNodeId = Null

\* the call with continuation c made this step
MadeStep(c) == CopiesIn(c, pending') < CopiesIn(c, pending)

IsPrefix(p, q) == Len(p) <= Len(q) /\ SubSeq(q, 1, Len(p)) = p

(***************************************************************************)
(* C7.  While isPaused stays true no node id is appended to executionPath; *)
(* and a call that waits in the pause poll continues, once the flag is     *)
(* cleared, by entering exactly the node it was about to enter: that id is *)
(* appended to executionPath and becomes currentNodeId (or, the node being *)
(* absent, one error is appended).  On a chain the path of an undisturbed  *)
(* run is always a prefix of the chain, paused or not: no node is skipped  *)
(* or repeated.                                                            *)
(***************************************************************************)
C7_PauseHoldsPath ==
  /\ [][(context.isPaused /\ context'.isPaused) =>
          context'.executionPath = context.executionPath]_vars
  /\ [][\A c \in BagToSet(pending) :
          (TimerStep /\ c.pc = "waiting" /\ MadeStep(c)) =>
            /\ ~context.isPaused
            /\ IF c.nodeId \in NodeIds(Nodes)
               THEN /\ context'.executionPath = Append(context.executionPath, c.nodeId)
                    /\ context'.currentNodeId = c.nodeId
                    /\ context'.errors = context.errors
               ELSE /\ context'.executionPath = context.executionPath
                    /\ Len(context'.errors) = Len(context.errors) + 1]_vars
  /\ []((~interfered /\ Chain(Nodes, Edges) # <<>>) =>
          IsPrefix(context.executionPath, Chain(Nodes, Edges)))

\* pause() then resume() were the control calls of the only run, which then
\* went on to the end of the chain
C7_Witness ==
  /\ calls = 1
  /\ controls = 2
  /\ lastControl = "resume"
  /\ ~interfered
  /\ InFlight = 0
  /\ Chain(Nodes, Edges) # <<>>
  /\ context.executionPath = Chain(Nodes, Edges)
  /\ Len(executionHistory) = Len(context.executionPath)

\* node n is a note that assigns 15 to x
WritesX15(n) == n.type = "sticky-note" /\ n.textContent /\ n.content = XIs15

(***************************************************************************)
(* C8.  pause() takes effect only at a node boundary: when the pacing      *)
(* delay of a node ends while isPaused is true, the node's work is still   *)
(* done (its trace entry is recorded, a note's variable is written, its    *)
(* successor is selected), and only the entry into the successor is held   *)
(* back: executionPath does not grow and the call waits for that           *)
(* successor, or has finished when there is none.                          *)
(***************************************************************************)
C8_PauseAtNodeBoundary ==
  [][(TimerStep /\ context.isPaused) =>
       \E c \in BagToSet(pending) :
         /\ c.pc = "delay"
         /\ MadeStep(c)
         /\ Len(executionHistory') = Len(executionHistory) + 1
         /\ Last(executionHistory').nodeId = c.nodeId
         /\ context'.executionPath = context.executionPath
         /\ context'.isPaused
         /\ WritesX15(NodeById(Nodes, c.nodeId)) =>
              getVariable(context'.variables, <<"x">>).value = NumberValue(15)
         /\ \/ BagCardinality(pending') = InFlight - 1
            \/ \E d \in BagToSet(pending') :
                 /\ d.pc = "waiting"
                 /\ d.nodeId \in Successors(Edges, c.nodeId)
                 /\ CopiesIn(d, pending') = CopiesIn(d, pending) + 1]_vars

\* pause() was the only control call of the only run; the note visited
\* during it has written x and has its trace entry, and the call waits
C8_Witness ==
  /\ calls = 1
  /\ controls = 1
  /\ lastControl = "pause"
  /\ context.isPaused
  /\ \E c \in BagToSet(pending) : c.pc = "waiting"
  /\ context.executionPath # <<>>
  /\ WritesX15(NodeById(Nodes, Last(context.executionPath)))
  /\ Len(executionHistory) = Len(context.executionPath)
  /\ getVariable(context.variables, <<"x">>).value = NumberValue(15)

(***************************************************************************)
(* C9.  executeWorkflow starts the run with executionPath, errors and the  *)
(* step trace emptied, so that after the call they hold only what the new  *)
(* run put there (the start node's id, or the one error of a graph without *)
(* start node), and it leaves the variable store unchanged.                *)
(***************************************************************************)
C9_RunKeepsVariables ==
  [][ExecuteStep =>
       /\ context'.variables = context.variables
       /\ executionHistory' = <<>>
       /\ IF StartIds(Nodes) = {}
          THEN context'.executionPath = <<>> /\ Len(context'.errors) = 1
          ELSE /\ Len(context'.executionPath) = 1
               /\ context'.executionPath[1] \in StartIds(Nodes)
               /\ context'.errors = <<>>]_vars

\* the second run has just started: the first run's variable is still there
C9_Witness ==
  /\ calls = 2
  /\ controls = 0
  /\ InFlight = 1
  /\ Len(context.executionPath) = 1
  /\ executionHistory = <<>>
  /\ context.errors = <<>>
  /\ getVariable(context.variables, <<"x">>).value = NumberValue(15)

\* the shape of a newly constructed engine
InitialShape ==
  /\ context = [variables |-> <<>>, currentNodeId |-> Null, isRunning |-> FALSE,
                isPaused |-> FALSE, executionPath |-> <<>>, errors |-> <<>>]
  /\ executionHistory = <<>>

(***************************************************************************)
(* C10.  reset() called with no traversal in flight puts the engine in its *)
(* initial shape (no variables, no cursor, not running, not paused, empty  *)
(* executionPath, errors and step trace); called in that shape it changes  *)
(* nothing.                                                                *)
(***************************************************************************)
C10_ResetIdempotent ==
  /\ [][(ControlStep("reset") /\ InFlight = 0) => InitialShape']_vars
  /\ [][(ControlStep("reset") /\ InitialShape) =>
          context' = context /\ executionHistory' = executionHistory]_vars

\* reset() was called, as the second control call, after a run that had
\* visited nodes and completed
C10_Witness ==
  /\ calls > 0
  /\ StartIds(Nodes) # {}
  /\ controls = 2
  /\ InFlight = 0
  /\ lastControl = "reset"
  /\ InitialShape

(***************************************************************************)
(* C11.  reset() does not stop a traversal in flight: it puts the engine   *)
(* in its initial shape and leaves every call in flight, and the next step *)
(* of such a call writes into the fresh context, which is then no longer   *)
(* in the initial shape although executeWorkflow was not called again.     *)
(***************************************************************************)
C11_ResetDoesNotCancel ==
  /\ [][ControlStep("reset") => (pending' = pending /\ InitialShape')]_vars
  /\ [][(TimerStep /\ InitialShape) => ~InitialShape']_vars

\* reset() was the only control call of the only run; since then the run
\* entered a node, wrote a variable and recorded a trace entry
C11_Witness ==
  /\ calls = 1
  /\ controls = 1
  /\ lastControl = "reset"
  /\ context.executionPath # <<>>
  /\ context.variables # <<>>
  /\ executionHistory # <<>>

(***************************************************************************)
(* Two engine instances side by side: each is constructed, given the same  *)
(* initial variable store, and runs the same canvas once, undisturbed by   *)
(* control calls; their timers fire in any order.                          *)
(***************************************************************************)
\* the stores setVariable may have filled before the run
InitialStores ==
  {<<>>} \cup {WriteVariable(<<>>, <<"x">>, v, inferType(v)) : v \in SetValues}

\* a variant in which the instances share one variable store
TwinStateShared == [twin EXCEPT !.context.variables = context.variables]

\* the fields of the second instance
TwinState == twin

PairInit ==
  /\ graph \in 1..Len(Graphs)
  /\ \E v \in InitialStores :
       /\ context = [InitialContext EXCEPT !.variables = v]
       /\ delivered = [InitialContext EXCEPT !.variables = v]
       /\ twin = Constructed(v)
  /\ executionHistory = <<>>
  /\ pending = EmptyBag
  /\ rejected = FALSE
  /\ calls = 0
  /\ controls = 0
  /\ lastControl = "none"
  /\ interfered = FALSE
  /\ disturbed = FALSE
  /\ canvas = InitialCanvas

\* the engine state e, reached by running the second instance's code
TwinCommit(e) ==
  /\ Len(e.context.executionPath) <= MaxPath
  /\ twin' = e
  /\ UNCHANGED <<graph, context, executionHistory, pending, rejected, calls, controls,
                 lastControl, interfered, disturbed, delivered, canvas>>

\* executeWorkflow(nodes, edges) on the second instance
TwinExecuteWorkflow ==
  /\ twin.pc = "none"
  /\ TwinCommit(StartWorkflow(TwinState, Nodes))

\* the timer of delay(500) fires for the second instance's call
TwinDelayElapsed ==
  /\ twin.pc = "delay"
  /\ TwinCommit(AfterDelay(TwinState, Nodes, Edges))

PairNext ==
  \/ calls = 0 /\ ExecuteWorkflow
  \/ \E c \in BagToSet(pending) : DelayElapsed(c)
  \/ TwinExecuteWorkflow
  \/ TwinDelayElapsed

PairSpec == PairInit /\ [][PairNext]_vars

\* both instances have completed their run
BothCompleted == calls = 1 /\ InFlight = 0 /\ twin.pc = "done"

IsDecision(n) == n.type = "control-flow" /\ n.kind = "decision"

\* the smallest element of a non-empty set of numbers
Least(S) == CHOOSE i \in S : \A j \in S : i <= j

\* the successor of decision node id whose condition came out as truth: the
\* target of the first edge leaving it with the tag of that outcome, else of
\* its first (true) or second (false) outgoing edge, Null when there is none
Selected(edges, id, truth) ==
  LET out == OutgoingEdges(edges, id)
      tagged == {i \in 1..Len(out) : out[i].sourceHandle = IF truth THEN "yes" ELSE "no"}
      position == IF truth THEN 1 ELSE 2
  IN IF tagged # {} THEN out[Least(tagged)].target
     ELSE IF position <= Len(out) THEN out[position].target
     ELSE Null

\* in this step a call goes on to node t: it ends when t is Null; it waits
\* for t when paused; else it enters t, or ends with an error when t is not
\* a node
GoesOnTo(t) ==
  IF t = Null
  THEN /\ context'.executionPath = context.executionPath
       /\ BagCardinality(pending') = InFlight - 1
  ELSE IF context.isPaused
  THEN /\ context'.executionPath = context.executionPath
       /\ CopiesIn(Continuation("waiting", t), pending')
            = CopiesIn(Continuation("waiting", t), pending) + 1
  ELSE IF t \in NodeIds(Nodes)
  THEN /\ context'.executionPath = Append(context.executionPath, t)
       /\ context'.currentNodeId = t
       /\ BagCardinality(pending') = InFlight
  ELSE /\ context'.executionPath = context.executionPath
       /\ context'.errors # <<>>
       /\ Last(context'.errors) = "Node not found"
       /\ BagCardinality(pending') = InFlight - 1

\* the call with continuation c does, in this step, the work of the node it
\* is visiting
Executes(c) == TimerStep /\ c.pc = "delay" /\ MadeStep(c)

(***************************************************************************)
(* C13.  When a decision node is executed its trace entry tells how its    *)
(* condition came out, and the traversal goes on to: the target of the     *)
(* edge tagged "yes", else of the first outgoing edge, when true; the      *)
(* target of the edge tagged "no", else of the second outgoing edge, when  *)
(* false; nowhere (it ends) when that edge does not exist.  The condition  *)
(* "x > 10" comes out true with x = 15 and false with x = 5.               *)
(***************************************************************************)
C13_DecisionBranch ==
  [][\A c \in BagToSet(pending) :
       (Executes(c) /\ IsDecision(NodeById(Nodes, c.nodeId))) =>
         LET x == getVariable(context.variables, <<"x">>)
             said == Last(executionHistory').output
         IN /\ Last(executionHistory').nodeId = c.nodeId
            /\ said \in {"true", "false"}
            /\ GoesOnTo(Selected(Edges, c.nodeId, said = "true"))
            /\ (NodeById(Nodes, c.nodeId).condition = XGreater10
                  /\ x.value = NumberValue(15)) => said = "true"
            /\ (NodeById(Nodes, c.nodeId).condition = XGreater10
                  /\ x.value = NumberValue(5)) => said = "false"]_vars

\* with x = 15 the decision took its "yes" edge, which is not the first of
\* its outgoing edges
C13_Witness ==
  /\ Len(context.executionPath) = 3
  /\ Len(executionHistory) >= 2
  /\ IsDecision(NodeById(Nodes, context.executionPath[2]))
  /\ executionHistory[2].output = "true"
  /\ getVariable(context.variables, <<"x">>).value = NumberValue(15)
  /\ OutgoingEdges(Edges, context.executionPath[2])[1].sourceHandle = "no"
  /\ context.executionPath[3] = Selected(Edges, context.executionPath[2], TRUE)

(***************************************************************************)
(* C14.  An end node terminates the traversal, outgoing edges or not: the  *)
(* call that executes an end node records its trace entry and completes,   *)
(* appending nothing to executionPath; so, unless a reset() or a second    *)
(* run came in between, an end node's id is never followed by another id   *)
(* in executionPath.                                                       *)
(***************************************************************************)
C14_EndTerminates ==
  /\ [][\A c \in BagToSet(pending) :
          (Executes(c) /\ IsEnd(NodeById(Nodes, c.nodeId))) =>
            /\ context'.executionPath = context.executionPath
            /\ context'.errors = context.errors
            /\ BagCardinality(pending') = InFlight - 1
            /\ Last(executionHistory').nodeId = c.nodeId
            /\ Last(executionHistory').action = "end"]_vars
  /\ [](~disturbed =>
          \A i \in 1..(Len(context.executionPath) - 1) :
            ~IsEnd(NodeById(Nodes, context.executionPath[i])))

\* the run has completed on an end node that has an outgoing edge
C14_Witness ==
  /\ calls > 0
  /\ ~disturbed
  /\ InFlight = 0
  /\ context.executionPath # <<>>
  /\ IsEnd(NodeById(Nodes, Last(context.executionPath)))
  /\ Successors(Edges, Last(context.executionPath)) # {}
  /\ Len(executionHistory) = Len(context.executionPath)

\* the target of the first edge that leaves node id, Null when there is none
FirstSuccessor(edges, id) == TargetAt(OutgoingEdges(edges, id), 1)

\* the call with continuation c is about to follow an edge to a node that is
\* not in the node list: it has waited for that node through a pause, or it
\* is visiting a node that passes straight through to it
FollowsDangling(c) ==
  /\ ~context.isPaused
  /\ \/ c.pc = "waiting" /\ c.nodeId \notin NodeIds(Nodes)
     \/ /\ c.pc = "delay"
        /\ PassesThrough(NodeById(Nodes, c.nodeId))
        /\ FirstSuccessor(Edges, c.nodeId) \notin NodeIds(Nodes) \cup {Null}

(***************************************************************************)
(* C15.  When the edge followed leads to an id that is not in the node     *)
(* list, exactly one error is appended, executionPath is left as it is, no *)
(* trace entry is recorded for the missing id (only the one of the node    *)
(* just executed), the traversal ends, and the call completes with         *)
(* isRunning false and currentNodeId null, its promise resolved.  No id    *)
(* outside the node list ever appears in executionPath or in the trace.    *)
(***************************************************************************)
C15_DanglingEdge ==
  /\ [][\A c \in BagToSet(pending) :
          (TimerStep /\ MadeStep(c) /\ FollowsDangling(c)) =>
            /\ context'.errors = Append(context.errors, "Node not found")
            /\ context'.executionPath = context.executionPath
            /\ BagCardinality(pending') = InFlight - 1
            /\ context'.isRunning = FALSE
            /\ context'.currentNodeId = Null
            /\ ~rejected'
            /\ IF c.pc = "delay"
               THEN /\ Len(executionHistory') = Len(executionHistory) + 1
                    /\ Last(executionHistory').nodeId = c.nodeId
               ELSE executionHistory' = executionHistory]_vars
  /\ [](\A i \in 1..Len(context.executionPath) : context.executionPath[i] \in NodeIds(Nodes))
  /\ [](\A i \in 1..Len(executionHistory) : executionHistory[i].nodeId \in NodeIds(Nodes))

\* the only run, no control call made, has ended at the dangling edge
C15_Witness ==
  /\ calls = 1
  /\ controls = 0
  /\ InFlight = 0
  /\ context.errors = <<"Node not found">>
  /\ Len(context.executionPath) = 2
  /\ FirstSuccessor(Edges, Last(context.executionPath)) \notin NodeIds(Nodes) \cup {Null}
  /\ Len(executionHistory) = 2
  /\ ~context.isRunning

(***************************************************************************)
(* C16.  Every node visit appends exactly one trace entry.  Unless reset() *)
(* or a second executeWorkflow was called while a traversal was in flight, *)
(* the trace is never longer than executionPath, its i-th entry is for the *)
(* i-th id of executionPath, and both have the same length once no call is *)
(* in flight.  The call that executes a node appends exactly the entry of  *)
(* that node, also when the executor throws or the type is unknown; and    *)
(* apart from executeWorkflow and reset(), every step leaves the trace as  *)
(* it is or appends to it.                                                 *)
(***************************************************************************)
C16_OneEntryPerVisit ==
  /\ [](~disturbed =>
          /\ Len(executionHistory) <= Len(context.executionPath)
          /\ \A i \in 1..Len(executionHistory) :
               executionHistory[i].nodeId = context.executionPath[i]
          /\ InFlight = 0 => Len(executionHistory) = Len(context.executionPath))
  /\ [][\A c \in BagToSet(pending) :
          Executes(c) =>
            /\ Len(executionHistory') = Len(executionHistory) + 1
            /\ Last(executionHistory').nodeId = c.nodeId]_vars
  /\ [][(~ExecuteStep /\ ~ControlStep("reset")) =>
          /\ IsPrefix(executionHistory, executionHistory')
          /\ Len(executionHistory') <= Len(executionHistory) + 1]_vars

\* a run has completed on a visit whose executor threw: the visit has its
\* trace entry
C16_Witness ==
  /\ calls > 0
  /\ ~disturbed
  /\ InFlight = 0
  /\ Len(context.executionPath) = 2
  /\ VisitThrows(Last(context.executionPath))
  /\ Len(executionHistory) = 2
  /\ Last(executionHistory).nodeId = Last(context.executionPath)
  /\ Last(executionHistory).output = "error"

(***************************************************************************)
(* C17.  Every change of the execution context reaches the listeners       *)
(* within the operation that makes it: whenever the engine is suspended    *)
(* (in a pacing delay or a pause poll) or idle, and after every control    *)
(* call, the context the listeners were called with last is the engine's   *)
(* current context.                                                        *)
(***************************************************************************)
C17_ListenersUpToDate == delivered = context

\* pause() was called during a run that has entered a node and written a
\* variable, and the listeners have seen all of it
C17_Witness ==
  /\ calls > 0
  /\ lastControl = "pause"
  /\ InFlight = 1
  /\ delivered.isPaused
  /\ delivered.isRunning
  /\ Len(delivered.executionPath) >= 2
  /\ delivered.variables # <<>>
  /\ delivered.currentNodeId = Last(context.executionPath)

\* the store holds a variable whose value is null and is not typed string
HoldsNull(variables) ==
  \E i \in 1..Len(variables) :
    variables[i].value.kind = "null" /\ variables[i].type # "string"

\* the condition text of decision node n
ConditionOf(n) == IF n.condition = <<>> THEN DefaultCondition ELSE n.condition

\* none of the four operators is left in the condition once the variables
\* are substituted and the other characters stripped
NoOperatorLeft(condition, variables) ==
  LET e == Sanitize(Substitute(condition, variables, 1))
  IN /\ ~Includes(e, <<">">>)
     /\ ~Includes(e, <<"<">>)
     /\ ~Includes(e, <<"=", "=">>)
     /\ ~Includes(e, <<"!", "=">>)

\* the condition is "x > 10" and the store has no x
ComparesAbsentX(n, variables) ==
  ConditionOf(n) = XGreater10 /\ ~HasVariable(variables, <<"x">>)

(***************************************************************************)
(* C18, as claimed.  When a decision's condition contains none of the four *)
(* operators, or is "x > 10" with no x in the variable store, the          *)
(* evaluator returns true and appends no error, and the decision follows   *)
(* its true branch.                                                        *)
(***************************************************************************)
C18_AsClaimed ==
  [][\A c \in BagToSet(pending) :
       (/\ Executes(c)
        /\ IsDecision(NodeById(Nodes, c.nodeId))
        /\ ~HoldsNull(context.variables)
        /\ \/ NoOperatorLeft(ConditionOf(NodeById(Nodes, c.nodeId)), context.variables)
           \/ ComparesAbsentX(NodeById(Nodes, c.nodeId), context.variables)) =>
         /\ Last(executionHistory').output = "true"
         /\ context'.errors = context.errors
         /\ GoesOnTo(Selected(Edges, c.nodeId, TRUE))]_vars

(***************************************************************************)
(* C18, amended.  Evaluation raising no error: when none of the four       *)
(* operators is left in the condition, the evaluator returns true, appends *)
(* no error, and the decision follows its true branch; when the condition  *)
(* is "x > 10" and x is not in the variable store, the comparison is with  *)
(* NaN: the evaluator returns false, appends no error, and the decision    *)
(* follows its false branch.                                               *)
(***************************************************************************)
C18_NoOperatorIsTrue ==
  [][\A c \in BagToSet(pending) :
       (/\ Executes(c)
        /\ IsDecision(NodeById(Nodes, c.nodeId))
        /\ ~HoldsNull(context.variables)) =>
         /\ NoOperatorLeft(ConditionOf(NodeById(Nodes, c.nodeId)), context.variables) =>
              /\ Last(executionHistory').output = "true"
              /\ context'.errors = context.errors
              /\ GoesOnTo(Selected(Edges, c.nodeId, TRUE))
         /\ ComparesAbsentX(NodeById(Nodes, c.nodeId), context.variables) =>
              /\ Last(executionHistory').output = "false"
              /\ context'.errors = context.errors
              /\ GoesOnTo(Selected(Edges, c.nodeId, FALSE))]_vars

\* the only run, no variable set, went from the decision without operator to
\* the decision "x > 10", which came out false and ended the run for want of
\* a second edge
C18_Witness ==
  /\ calls = 1
  /\ controls = 0
  /\ InFlight = 0
  /\ context.variables = <<>>
  /\ context.errors = <<>>
  /\ Len(context.executionPath) = 3
  /\ Len(executionHistory) = 3
  /\ ConditionOf(NodeById(Nodes, context.executionPath[2])) = Ok
  /\ executionHistory[2].output = "true"
  /\ ConditionOf(NodeById(Nodes, context.executionPath[3])) = XGreater10
  /\ executionHistory[3].output = "false"

(***************************************************************************)
(* C19.  When the variable store holds a variable whose value is null (as  *)
(* the note "x = null" writes it), evaluating a decision's condition       *)
(* raises; the error is caught: exactly one error is appended to errors,   *)
(* the condition counts as false (the trace entry says so) and the         *)
(* traversal goes on along the decision's false branch.                    *)
(***************************************************************************)
C19_EvaluationErrorIsFalse ==
  [][\A c \in BagToSet(pending) :
       (/\ Executes(c)
        /\ IsDecision(NodeById(Nodes, c.nodeId))
        /\ HoldsNull(context.variables)) =>
         /\ Last(executionHistory').output = "false"
         /\ Len(context'.errors) > Len(context.errors)
         /\ SubSeq(context'.errors, 1, Len(context.errors) + 1)
              = Append(context.errors, EvaluationError)
         /\ Selected(Edges, c.nodeId, FALSE) \in NodeIds(Nodes) \cup {Null} =>
              Len(context'.errors) = Len(context.errors) + 1
         /\ GoesOnTo(Selected(Edges, c.nodeId, FALSE))]_vars

\* the first run wrote x = null by a note; in the second run the decision
\* raised, counted as false, and the run went on to the second edge's target
C19_Witness ==
  /\ calls = 2
  /\ controls = 0
  /\ ~interfered
  /\ HoldsNull(context.variables)
  /\ getVariable(context.variables, <<"x">>).value = NullValue
  /\ context.errors = <<EvaluationError>>
  /\ Len(context.executionPath) = 3
  /\ IsDecision(NodeById(Nodes, context.executionPath[2]))
  /\ Len(executionHistory) >= 2
  /\ executionHistory[2].output = "false"
  /\ context.executionPath[3] = Selected(Edges, context.executionPath[2], FALSE)

\* a cycle can be reached from a start node along the edges
CycleReachable(nodes, edges) ==
  \E n \in Reachable(StartIds(nodes), edges) :
    n \in Reachable(Successors(edges, n), edges)

\* following the first outgoing edge of each node from id on leads, through
\* nodes that pass straight through, to a node of seen
RECURSIVE WalkReturns(_, _, _, _)
WalkReturns(nodes, edges, id, seen) ==
  IF id \notin NodeIds(nodes) THEN FALSE
  ELSE IF id \in seen THEN TRUE
  ELSE IF ~PassesThrough(NodeById(nodes, id)) THEN FALSE
  ELSE WalkReturns(nodes, edges, FirstSuccessor(edges, id), seen \cup {id})

\* the walk the engine makes from the start node runs into a cycle
FollowsCycle(nodes, edges) ==
  /\ StartIndex(nodes) # 0
  /\ WalkReturns(nodes, edges, nodes[StartIndex(nodes)].id, {})

(***************************************************************************)
(* C20, as claimed.  On a graph in which a cycle is reachable from the     *)
(* start node, a run during which no control call is made never completes: *)
(* isRunning stays true.                                                   *)
(***************************************************************************)
C20_AsClaimed ==
  (calls = 1 /\ controls = 0 /\ CycleReachable(Nodes, Edges)) => context.isRunning

(***************************************************************************)
(* C20, amended.  On a graph in which following the first outgoing edge of *)
(* each node from the start node on leads only through start and process   *)
(* nodes, text notes, files and shapes and comes back to a node already    *)
(* visited, a run that is not stopped, reset or overlapped never           *)
(* completes: isRunning stays true and the call stays in flight with a     *)
(* timer armed, and every timer that fires while the run is not paused     *)
(* appends one more node id to executionPath.                              *)
(***************************************************************************)
C20_FollowedCycleNeverCompletes ==
  /\ []((calls > 0 /\ ~interfered /\ FollowsCycle(Nodes, Edges)) =>
          /\ context.isRunning
          /\ InFlight = 1
          /\ context.executionPath # <<>>)
  /\ [][(TimerStep /\ ~interfered /\ FollowsCycle(Nodes, Edges) /\ ~context.isPaused) =>
          /\ Len(context'.executionPath) = Len(context.executionPath) + 1
          /\ context'.isRunning]_vars

\* the run has come back to the node it started from and is still running
C20_Witness ==
  /\ calls = 1
  /\ ~interfered
  /\ FollowsCycle(Nodes, Edges)
  /\ Len(context.executionPath) >= 3
  /\ context.executionPath[3] = context.executionPath[1]
  /\ context.isRunning
  /\ InFlight = 1

(***************************************************************************)
(* The variable store on its own: setVariable is called with names, values *)
(* and kinds of a small set, and notes of a small set are visited, on an   *)
(* engine that runs no workflow.                                           *)
(***************************************************************************)
Count == <<"c", "o", "u", "n", "t">>

Flag == <<"f", "l", "a", "g">>

\* the names given to setVariable and getVariable
Names == {<<"x">>, Count, Flag} \cup ObjectPrototype

\* the values given to setVariable
Values == {NumberValue(3), BooleanValue(TRUE), StringValue(<<"a", "b">>), NullValue}

\* the kinds given to setVariable; Null: the argument is left out
Kinds == {Null, "string"}

\* note contents, each with the variable the note is to write: none, or its
\* name, value and kind
NoteCases ==
  {
     \* count = 3
     [content |-> <<"c", "o", "u", "n", "t", " ", "=", " ", "3">>,
      writes |-> TRUE, name |-> <<"c", "o", "u", "n", "t">>, value |-> NumberValue(3), type |-> "number"],
     \* count=-3
     [content |-> <<"c", "o", "u", "n", "t", "=", "-", "3">>,
      writes |-> TRUE, name |-> <<"c", "o", "u", "n", "t">>, value |-> NumberValue(0 - 3), type |-> "number"],
     \* flag = true
     [content |-> <<"f", "l", "a", "g", " ", "=", " ", "t", "r", "u", "e">>,
      writes |-> TRUE, name |-> <<"f", "l", "a", "g">>, value |-> BooleanValue(TRUE), type |-> "boolean"],
     \* flag = False
     [content |-> <<"f", "l", "a", "g", " ", "=", " ", "F", "a", "l", "s", "e">>,
      writes |-> TRUE, name |-> <<"f", "l", "a", "g">>, value |-> BooleanValue(FALSE), type |-> "boolean"],
     \* x = null
     [content |-> <<"x", " ", "=", " ", "n", "u", "l", "l">>,
      writes |-> TRUE, name |-> <<"x">>, value |-> NullValue, type |-> "object"],
     \* x = "ab"
     [content |-> <<"x", " ", "=", " ", "\"", "a", "b", "\"">>,
      writes |-> TRUE, name |-> <<"x">>, value |-> StringValue(<<"a", "b">>), type |-> "string"],
     \* x = 'ab'
     [content |-> <<"x", " ", "=", " ", "'", "a", "b", "'">>,
      writes |-> TRUE, name |-> <<"x">>, value |-> StringValue(<<"a", "b">>), type |-> "string"],
     \* x = ab
     [content |-> <<"x", " ", "=", " ", "a", "b">>,
      writes |-> TRUE, name |-> <<"x">>, value |-> StringValue(<<"a", "b">>), type |-> "string"],
     \* x = "3"
     [content |-> <<"x", " ", "=", " ", "\"", "3", "\"">>,
      writes |-> TRUE, name |-> <<"x">>, value |-> StringValue(<<"3">>), type |-> "string"],
     \* ab
     [content |-> <<"a", "b">>,
      writes |-> FALSE, name |-> <<>>, value |-> NullValue, type |-> "undefined"]
  }

\* setVariable(name, value, type) on the store variables
SetVariableIn(variables, name, value, type) ==
  WriteVariable(variables, name, value, IF type = Null THEN inferType(value) ELSE type)

\* the note node of a canvas whose content is content
NoteWith(content) == StickyNote("n", content)

StoreInit == Init /\ graph = 1

\* executionEngine.setVariable(name, value, type)
StoreSetVariable(name, value, type) ==
  /\ Control
  /\ context' = [context EXCEPT !.variables = SetVariableIn(@, name, value, type)]
  /\ delivered' = context'
  /\ lastControl' = "setVariable"
  /\ UNCHANGED <<graph, executionHistory, pending, rejected, calls, interfered, disturbed,
                 twin, canvas>>

\* executeNode on a note with the given content, and the push of its step
StoreVisitNote(content) ==
  /\ Control
  /\ LET r == executeNode(NoteWith(content), <<>>, context.variables)
     IN /\ context' = [context EXCEPT !.variables = r.variables]
        /\ executionHistory' = Append(executionHistory, r.step)
  /\ delivered' = context'
  /\ lastControl' = "note"
  /\ UNCHANGED <<graph, pending, rejected, calls, interfered, disturbed, twin, canvas>>

StoreNext ==
  \/ \E name \in Names, value \in Values, type \in Kinds : StoreSetVariable(name, value, type)
  \/ \E case \in NoteCases : StoreVisitNote(case.content)

StoreSpec == StoreInit /\ [][StoreNext]_vars

\* every variable but name is in after what it is in before
OthersUnchanged(before, after, name) ==
  \A other \in Names \ {name} : getVariable(after, other) = getVariable(before, other)

(***************************************************************************)
(* C21.  Whatever the store holds, visiting a note writes what its content *)
(* says: "count = 3" the number 3 of kind number, "flag = true" the        *)
(* boolean true of kind boolean (in any case of letters), "x = null" the   *)
(* structured value null of kind object, a quoted or unquoted text the     *)
(* text without its quotes of kind string, a number before a boolean       *)
(* before a structured value before a text; the other variables stay as    *)
(* they are; and a content without "=" writes nothing.                     *)
(***************************************************************************)
C21_NoteAssignment ==
  \A case \in NoteCases :
    LET r == executeNode(NoteWith(case.content), <<>>, context.variables)
    IN /\ ~r.threw
       /\ r.errors = <<>>
       /\ IF case.writes
          THEN /\ r.wrote
               /\ getVariable(r.variables, case.name)
                    = [name |-> case.name, value |-> case.value, type |-> case.type]
               /\ OthersUnchanged(context.variables, r.variables, case.name)
          ELSE ~r.wrote /\ r.variables = context.variables

\* two notes were visited: count is the number 3 and flag the boolean true
C21_Witness ==
  /\ Len(executionHistory) = 2
  /\ \A i \in 1..2 : executionHistory[i].action = "note" /\ executionHistory[i].output = "variable"
  /\ getVariable(context.variables, Count) = [name |-> Count, value |-> NumberValue(3), type |-> "number"]
  /\ getVariable(context.variables, Flag) = [name |-> Flag, value |-> BooleanValue(TRUE), type |-> "boolean"]

(***************************************************************************)
(* C22.  As the claim states it: setVariable(name, v) makes getVariable of *)
(* name the entry with that name, the value v and the kind given or        *)
(* inferred from v, whether or not name was written before, and leaves     *)
(* every other variable as it is; and getVariable of a name that was never *)
(* written is not found.  The engine does not satisfy the last part.       *)
(***************************************************************************)
C22_AsClaimed ==
  /\ \A name \in Names, value \in Values, type \in Kinds :
       LET after == SetVariableIn(context.variables, name, value, type)
       IN /\ getVariable(after, name)
               = [name |-> name, value |-> value,
                  type |-> IF type = Null THEN inferType(value) ELSE type]
          /\ OthersUnchanged(context.variables, after, name)
  /\ \A name \in Names :
       ~HasVariable(context.variables, name)
         => getVariable(context.variables, name) = NotFound

(***************************************************************************)
(* C23.  The call that executes a start or process node, a note, a file or *)
(* a shape goes on to the target of the first edge, in the order of the    *)
(* edge list, that leaves the node, however many edges leave it; with no   *)
(* such edge the traversal ends and no error is appended.  So, unless a    *)
(* reset() or a second run came in between, the id that follows such a     *)
(* node in executionPath is always the target of its first edge.           *)
(***************************************************************************)
C23_FirstEdge ==
  /\ [][\A c \in BagToSet(pending) :
          (Executes(c) /\ PassesThrough(NodeById(Nodes, c.nodeId))) =>
            /\ GoesOnTo(FirstSuccessor(Edges, c.nodeId))
            /\ FirstSuccessor(Edges, c.nodeId) = Null =>
                  /\ context'.errors = context.errors
                  /\ ~rejected']_vars
  /\ [](~disturbed =>
          \A i \in 1..(Len(context.executionPath) - 1) :
            PassesThrough(NodeById(Nodes, context.executionPath[i])) =>
              context.executionPath[i + 1] = FirstSuccessor(Edges, context.executionPath[i]))

\* the only run went from a start node with two edges to the target of the
\* first, not of the second, and ended there, the node having no edge, with
\* no error
C23_Witness ==
  /\ calls = 1
  /\ controls = 0
  /\ InFlight = 0
  /\ Len(context.executionPath) = 2
  /\ Len(OutgoingEdges(Edges, context.executionPath[1])) = 2
  /\ context.executionPath[2] = OutgoingEdges(Edges, context.executionPath[1])[1].target
  /\ context.executionPath[2] # OutgoingEdges(Edges, context.executionPath[1])[2].target
  /\ OutgoingEdges(Edges, context.executionPath[2]) = <<>>
  /\ Len(executionHistory) = 2
  /\ context.errors = <<>>
  /\ ~context.isRunning

(***************************************************************************)
(* C24.  The order within a node visit.  While a call is in the pacing      *)
(* delay of a node, the node's id is already the last of executionPath (and *)
(* currentNodeId, unless stop() cleared it) and the node's trace entry is   *)
(* not yet recorded.  The step made when the delay is over does the node's  *)
(* work on the variable store as it is at that moment, whoever wrote it     *)
(* meanwhile: it records the one trace entry of the node, with the outcome  *)
(* of a decision computed from that store, makes the note's write to that   *)
(* store, and only then appends the successor's id, if any.                 *)
(***************************************************************************)
C24_VisitOrder ==
  /\ [](\A c \in BagToSet(pending) :
          (c.pc = "delay" /\ ~disturbed) =>
            /\ context.executionPath # <<>>
            /\ Last(context.executionPath) = c.nodeId
            /\ Len(executionHistory) = Len(context.executionPath) - 1
            /\ ~interfered => context.currentNodeId = c.nodeId)
  /\ [][\A c \in BagToSet(pending) :
          Executes(c) =>
            LET r == executeNode(NodeById(Nodes, c.nodeId), Edges, context.variables)
            IN /\ Len(executionHistory') = Len(executionHistory) + 1
               /\ Last(executionHistory').nodeId = c.nodeId
               /\ Last(executionHistory').output = IF r.threw THEN "error" ELSE r.step.output
               /\ context'.variables = r.variables
               /\ context'.executionPath
                    \in {context.executionPath, Append(context.executionPath, r.next)}]_vars

\* the note wrote x = 15, another caller wrote x = 5 while the only run was
\* in the delay of the decision "x > 10", and the decision came out false
C24_Witness ==
  /\ calls = 1
  /\ controls = 1
  /\ lastControl = "setVariable"
  /\ InFlight = 0
  /\ Len(context.executionPath) = 3
  /\ Len(executionHistory) = 3
  /\ WritesX15(NodeById(Nodes, context.executionPath[2]))
  /\ executionHistory[2].output = "variable"
  /\ IsDecision(NodeById(Nodes, context.executionPath[3]))
  /\ ConditionOf(NodeById(Nodes, context.executionPath[3])) = XGreater10
  /\ executionHistory[3].output = "false"
  /\ getVariable(context.variables, <<"x">>).value = NumberValue(5)

(***************************************************************************)
(* One run under fair timers: executeWorkflow is called once, on a canvas  *)
(* whose nodes all fit into the bound on executionPath; pause(), resume(), *)
(* stop() and setVariable are called at any time; a timer that is armed    *)
(* fires, the pause poll that finds the flag cleared goes on, and a pause  *)
(* is not left standing for ever: resume() is called at last.              *)
(***************************************************************************)
LiveInit == Init /\ Len(Nodes) <= MaxPath

\* executionEngine.resume(), called on a paused engine at last
ResumeAtLast ==
  /\ context.isPaused
  /\ context' = [context EXCEPT !.isPaused = FALSE]
  /\ lastControl' = "resume"
  /\ delivered' = context'
  /\ UNCHANGED <<graph, executionHistory, pending, rejected, calls, controls, interfered,
                 disturbed, twin, canvas>>

LiveNext ==
  \/ calls = 0 /\ ExecuteWorkflow
  \/ \E c \in BagToSet(pending) : DelayElapsed(c)
  \/ \E c \in BagToSet(pending) : CheckResume(c)
  \/ pause
  \/ resume
  \/ ResumeAtLast
  \/ stop
  \/ \E value \in SetValues : setVariable(value)

\* the timer of a pacing delay is armed
DelayArmed == \E c \in BagToSet(pending) : c.pc = "delay"

\* the timer of a pause poll is armed, and the poll will find the flag cleared
PollArmed == \E c \in BagToSet(pending) : c.pc = "waiting" /\ ~context.isPaused

\* Weak fairness of the two timers is written out, with the condition under
\* which the timer's code runs in place of ENABLED.
LiveSpec ==
  /\ LiveInit
  /\ [][LiveNext]_vars
  /\ WF_vars(ResumeAtLast)
  /\ \/ []<>(~DelayArmed)
     \/ []<><<\E c \in BagToSet(pending) : DelayElapsed(c)>>_vars
  /\ \/ []<>(~PollArmed)
     \/ []<><<\E c \in BagToSet(pending) : CheckResume(c)>>_vars

\* no id occurs twice in executionPath
NoRepeat ==
  \A i, j \in 1..Len(context.executionPath) :
    context.executionPath[i] = context.executionPath[j] => i = j

\* the call has completed
Completed ==
  /\ calls = 1
  /\ InFlight = 0
  /\ ~context.isRunning
  /\ context.currentNodeId = Null
  /\ ~rejected

(***************************************************************************)
(* C25.  Under fair timers, every pause being followed at last by a        *)
(* resume(), the run called eventually completes, with isRunning false and *)
(* currentNodeId null, unless it comes to visit a node twice; and as long  *)
(* as it has visited no node twice it has made at most as many node visits *)
(* as the canvas has nodes.                                                *)
(***************************************************************************)
C25_Completes ==
  /\ (calls = 1) ~> (Completed \/ ~NoRepeat)
  /\ [](NoRepeat => /\ Len(context.executionPath) <= Len(Nodes)
                    /\ Len(executionHistory) <= Len(Nodes))

\* the run was paused and resumed and has completed at the end of a chain
\* through every node of the canvas
C25_Witness ==
  /\ Completed
  /\ controls = 2
  /\ lastControl = "resume"
  /\ Len(Nodes) = 3
  /\ context.executionPath = Chain(Nodes, Edges)
  /\ Len(context.executionPath) = Len(Nodes)
  /\ Len(executionHistory) = Len(Nodes)

\* in this step a call comes to enter node t or to wait for it
ComesTo(t) ==
  \E pc \in {"delay", "waiting"} :
    CopiesIn(Continuation(pc, t), pending') > CopiesIn(Continuation(pc, t), pending)

\* the targets of the edges leaving node id whose tag is among tags
TargetsTagged(edges, id, tags) ==
  {edges[i].target : i \in {j \in 1..Len(edges) : /\ edges[j].source = id
                                                   /\ edges[j].sourceHandle \in tags}}

(***************************************************************************)
(* C26.  As the claim states it: the call that executes a decision node    *)
(* whose trace entry records true does not come to a node that only edges  *)
(* tagged "no" lead to from the decision, and one whose entry records      *)
(* false does not come to a node that only edges tagged "yes" lead to.     *)
(* The engine does not satisfy this.                                       *)
(***************************************************************************)
C26_AsClaimed ==
  [][\A c \in BagToSet(pending) :
       (Executes(c) /\ IsDecision(NodeById(Nodes, c.nodeId))) =>
         LET said == Last(executionHistory').output
             wrong == IF said = "true" THEN "no" ELSE "yes"
             tags == {Edges[i].sourceHandle : i \in 1..Len(Edges)}
         IN \A t \in TargetsTagged(Edges, c.nodeId, {wrong}) :
              t \in TargetsTagged(Edges, c.nodeId, tags \ {wrong}) \/ ~ComesTo(t)]_vars

\* some call is suspended in the pause wait
SomeWaiting == \E c \in BagToSet(pending) : c.pc = "waiting"

(***************************************************************************)
(* C27.  stop() does not keep a traversal halted that is suspended in the  *)
(* pause wait: stop() clears isPaused and leaves the waiting call in       *)
(* flight, so that its poll finds the flag cleared without any resume();   *)
(* and the step a waiting call makes while isRunning is false enters the   *)
(* node it waited for (its id is appended to executionPath and becomes     *)
(* currentNodeId, its pacing delay begins) and leaves isRunning false.     *)
(***************************************************************************)
C27_StopReleasesPause ==
  /\ [][(ControlStep("stop") /\ SomeWaiting) =>
          /\ ~context'.isPaused
          /\ ~context'.isRunning
          /\ pending' = pending]_vars
  /\ [][\A c \in BagToSet(pending) :
          (TimerStep /\ c.pc = "waiting" /\ MadeStep(c) /\ ~context.isRunning
             /\ c.nodeId \in NodeIds(Nodes)) =>
            /\ context'.executionPath = Append(context.executionPath, c.nodeId)
            /\ context'.currentNodeId = c.nodeId
            /\ ~context'.isRunning
            /\ CopiesIn(Continuation("delay", c.nodeId), pending')
                 = CopiesIn(Continuation("delay", c.nodeId), pending) + 1]_vars
  /\ []((lastControl = "stop" /\ SomeWaiting) => ~context.isPaused)

\* the only run was paused and came to wait; stop() was called then, with no
\* resume(): the call is still in the pause wait, in flight, and the flag it
\* polls is cleared while isRunning is false
C27_Witness ==
  /\ calls = 1
  /\ controls = 2
  /\ lastControl = "stop"
  /\ ~context.isRunning
  /\ ~context.isPaused
  /\ context.currentNodeId = Null
  /\ InFlight = 1
  /\ SomeWaiting
  /\ Len(context.executionPath) >= 1
  /\ Len(executionHistory) = Len(context.executionPath)

(***************************************************************************)
(* C28.  As the claim states it: whenever isPaused is true, isRunning is   *)
(* true.  The engine does not satisfy this: pause() sets the flag whatever *)
(* isRunning is, and the finally block of executeWorkflow leaves it set.   *)
(***************************************************************************)
C28_AsClaimed == context.isPaused => context.isRunning

\* the node types executeNode has a case for
KnownTypes == {"control-flow", "sticky-note", "text-file", "shape"}

\* the kinds of control-flow node executeControlFlowNode has a case of its own for
KnownKinds == {"start", "end", "decision", "process"}

UnknownType(n) == n.type \notin KnownTypes

UnknownKind(n) == n.type = "control-flow" /\ n.kind \notin KnownKinds

(***************************************************************************)
(* C29.  The call that executes a node of a type other than control-flow,  *)
(* sticky-note, text-file and shape appends exactly the one error "Unknown *)
(* node type", records the one trace entry of the node, appends nothing to *)
(* executionPath and completes, with isRunning false and currentNodeId     *)
(* null, its promise resolved.  The call that executes a control-flow node *)
(* of a kind other than start, end, decision and process records a trace   *)
(* entry with the action "process" and goes on to the target of the node's *)
(* first outgoing edge, with no error unless that target is missing.       *)
(***************************************************************************)
C29_UnknownNode ==
  /\ [][\A c \in BagToSet(pending) :
          (Executes(c) /\ UnknownType(NodeById(Nodes, c.nodeId))) =>
            /\ context'.errors = Append(context.errors, "Unknown node type")
            /\ Len(executionHistory') = Len(executionHistory) + 1
            /\ Last(executionHistory').nodeId = c.nodeId
            /\ context'.executionPath = context.executionPath
            /\ BagCardinality(pending') = InFlight - 1
            /\ ~context'.isRunning
            /\ context'.currentNodeId = Null
            /\ ~rejected']_vars
  /\ [][\A c \in BagToSet(pending) :
          (Executes(c) /\ UnknownKind(NodeById(Nodes, c.nodeId))) =>
            /\ Len(executionHistory') = Len(executionHistory) + 1
            /\ Last(executionHistory') = StepOf(c.nodeId, "process", "Processed")
            /\ GoesOnTo(FirstSuccessor(Edges, c.nodeId))
            /\ FirstSuccessor(Edges, c.nodeId) \in NodeIds(Nodes) \cup {Null} =>
                  context'.errors = context.errors]_vars

\* the only run has ended on a node of unknown type that has an outgoing
\* edge: one error, one trace entry per visit, not running
C29_Witness ==
  /\ calls = 1
  /\ controls = 0
  /\ InFlight = 0
  /\ Len(context.executionPath) = 2
  /\ UnknownType(NodeById(Nodes, Last(context.executionPath)))
  /\ FirstSuccessor(Edges, Last(context.executionPath)) \in NodeIds(Nodes)
  /\ context.errors = <<"Unknown node type">>
  /\ Len(executionHistory) = 2
  /\ Last(executionHistory).nodeId = Last(context.executionPath)
  /\ ~context.isRunning
  /\ context.currentNodeId = Null

(***************************************************************************)
(* The canvas store on its own: the editor records commands, groups are    *)
(* created and deleted, canvases are imported, and undo() and redo() are   *)
(* called, in any order.                                                   *)
(***************************************************************************)
MaxCommands == 3

\* the ids the editor gives to edges and groups
EdgeIds == {"e1", "e2"}

GroupIds == {"g1"}

\* the canvases a file to import may hold
Imports ==
  {[nodes |-> <<>>, edges |-> <<>>, groups |-> <<>>],
   [nodes |-> <<CNode("n1", "a"), CNode("n2", "a")>>,
    edges |-> <<CEdge("e9", "n1", "n2")>>,
    groups |-> <<[id |-> "g9"]>>]}

\* the edges of the canvas that touch node id
EdgesAt(c, id) == SelectSeq(c.edges, LAMBDA e : e.source = id \/ e.target = id)

\* the commands the editor may record on the canvas c: a node is added,
\* deleted or edited, an edge is drawn or deleted
Commands(c) ==
  {[type |-> "ADD_NODE", node |-> CNode(id, "a")] :
     id \in {x \in {"n3"} : IndexOfId(c.nodes, x) = 0}}
  \cup {[type |-> "DELETE_NODE", nodeId |-> c.nodes[i].id, node |-> c.nodes[i],
         edges |-> EdgesAt(c, c.nodes[i].id)] : i \in 1..Len(c.nodes)}
  \cup {[type |-> "UPDATE_NODE", nodeId |-> c.nodes[i].id, previousNode |-> c.nodes[i],
         updates |-> "b"] : i \in 1..Len(c.nodes)}
  \cup {[type |-> "ADD_EDGE", edge |-> CEdge(id, "n1", "n2")] :
          id \in {x \in EdgeIds : IndexOfId(c.edges, x) = 0}}
  \cup {[type |-> "DELETE_EDGE", edgeId |-> c.edges[i].id, edge |-> c.edges[i]] :
          i \in 1..Len(c.edges)}

\* one more command fits the bound on the log
Loggable == canvas.historyIndex + 1 < MaxCommands

EngineIdle ==
  UNCHANGED <<graph, context, executionHistory, pending, rejected, calls, controls,
              lastControl, interfered, disturbed, delivered, twin>>

\* canvasStore.executeCommand(command)
ExecuteCommand(command) ==
  /\ Loggable
  /\ canvas' = executeCommand(canvas, command)
  /\ EngineIdle

CreateGroup(id) ==
  /\ Loggable
  /\ IndexOfId(canvas.groups, id) = 0
  /\ canvas' = createGroup(canvas, id)
  /\ EngineIdle

DeleteGroup(groupId) ==
  /\ Loggable
  /\ IndexOfId(canvas.groups, groupId) # 0
  /\ canvas' = deleteGroup(canvas, groupId)
  /\ EngineIdle

ImportCanvas(data) ==
  /\ Loggable
  /\ canvas' = importCanvas(canvas, data)
  /\ EngineIdle

Undo ==
  /\ canUndo(canvas)
  /\ canvas' = undo(canvas)
  /\ EngineIdle

Redo ==
  /\ canRedo(canvas)
  /\ canvas' = redo(canvas)
  /\ EngineIdle

CanvasNext ==
  \/ \E command \in Commands(canvas) : ExecuteCommand(command)
  \/ \E id \in GroupIds : CreateGroup(id)
  \/ \E id \in GroupIds \cup {"g9"} : DeleteGroup(id)
  \/ \E data \in Imports : ImportCanvas(data)
  \/ Undo
  \/ Redo

CanvasInit == Init /\ graph = 1

CanvasSpec == CanvasInit /\ [][CanvasNext]_vars

\* the nodes, edges and groups of the canvas
Content(c) == <<c.nodes, c.edges, c.groups>>

(***************************************************************************)
(* C30.  As the claim states it: whenever there is a command to undo,      *)
(* undo() followed by redo() leaves the nodes, edges and groups of the     *)
(* canvas as they are, whatever the command is.  The store does not        *)
(* satisfy this for the CLEAR_CANVAS command that importCanvas records.    *)
(***************************************************************************)
C30_AsClaimed == canUndo(canvas) => Content(redo(undo(canvas))) = Content(canvas)

====
